---------------------------- MODULE Spec2Model ----------------------------
(***************************************************************************)
(* A model of bevy_tmx: the .tmx document parser (src/src/tmx/parse.rs),   *)
(* the document model it builds (map.rs, layer.rs) and the tile geometry   *)
(* (tile_type.rs).                                                         *)
(*                                                                         *)
(* The module holds several state machines over one set of variables:      *)
(*   SpecGeometry  TileType::coord_to_pos / pos_to_coord                   *)
(*   SpecData      parse_data / Data::into_vec_u32                         *)
(*   SpecMap       Map::parse: tilesets, layers, groups, object layers     *)
(*   SpecObject    Object::parse / Object::parse_template                  *)
(* Each specification leaves the variables of the others at their idle     *)
(* value.                                                                  *)
(*                                                                         *)
(* Conventions.                                                            *)
(*  - A fallible computation yields a record [ok, why, val]; why is "err"  *)
(*    for a returned Err(..), "panic" for a Rust panic (todo!(), division  *)
(*    by zero) and "overflow" for an integer overflow, which panics in a   *)
(*    build with overflow checks and wraps in one without.                 *)
(*  - Option values are <<>> (None) or <<v>> (Some(v)).                    *)
(*  - f32 values are exact rationals <<num, den>>; the inputs are chosen   *)
(*    among values f32 represents exactly.                                 *)
(*  - u32 tile ids of the data decoder are pairs <<hi, lo>> of 16-bit      *)
(*    halves (the value is hi * 2^16 + lo).                                *)
(***************************************************************************)
EXTENDS Integers, Sequences, FiniteSets, TLC

VARIABLES
    \* ---- geometry (tile_type.rs)
    tile_type,      \* the TileType value
    layer_height,   \* the layer_height argument
    coord,          \* the tile coordinate handed to coord_to_pos
    pos,            \* the result of coord_to_pos
    query,          \* the pixel handed to pos_to_coord
    back,           \* the result of pos_to_coord
    gpc,            \* "idle" | "start" | "pos" | "coord"
    \* ---- tile data (parse.rs: parse_data, Data)
    data_doc,       \* the document's data element as it was written (input)
    data_events,    \* the events of the data element not yet read
    data,           \* parse_data's `result`: a Data value
    data_res,       \* "idle" | "run" | "ok" | "err"
    tile_ids,       \* the Vec<u32> of Data::into_vec_u32
    \* ---- map (parse.rs: Map::parse, Layer::parse_group; map.rs)
    tilesets,       \* Map::tilesets
    layers,         \* Map::layers
    stack,          \* the activations of parse_group, innermost last
    docs,           \* the elements read so far: of the map, then per group (input)
    map_res,        \* "idle" | "run" | "ok" | "err" | "panic"
    overflow_checks,\* whether the build panics on integer overflow
    lookup,         \* the last get_tile / get_tileset call and its result
    \* ---- objects (parse.rs: Object::parse, Object::parse_template)
    obj_doc,        \* the object element as it was written (input)
    object,         \* the result of Object::parse
    \* ---- single calls (parse.rs: Map::parse attributes, parse_color, parse_tsx)
    args,           \* the function called and its arguments (input)
    returned,       \* what the call returned
    \* ---- Map::objects (map.rs: impl Iterator for Objects)
    iter,           \* the Objects value the caller holds
    yielded,        \* what the calls of next() returned so far, in order
    \* ---- Texture::load (texture.rs)
    texture,        \* the cell shared by the clones: Inner, and the mutex's holder
    tasks,          \* per caller of load: where it stands, its `handle`, its result
    assets          \* the labeled assets set on the load context, in order

geoVars == <<tile_type, layer_height, coord, pos, query, back, gpc>>

dataVars == <<data_doc, data_events, data, data_res, tile_ids>>

mapVars == <<tilesets, layers, stack, docs, map_res, overflow_checks, lookup>>

objVars == <<obj_doc, object>>

callVars == <<args, returned>>

iterVars == <<iter, yielded>>

texVars == <<texture, tasks, assets>>

vars == <<geoVars, dataVars, mapVars, objVars, callVars, iterVars, texVars>>

notGeo == <<dataVars, mapVars, objVars, callVars, iterVars, texVars>>

notData == <<geoVars, mapVars, objVars, callVars, iterVars, texVars>>

notMap == <<geoVars, dataVars, objVars, callVars, iterVars, texVars>>

notObj == <<geoVars, dataVars, mapVars, callVars, iterVars, texVars>>

notCall == <<geoVars, dataVars, mapVars, objVars, iterVars, texVars>>

-----------------------------------------------------------------------------
(* Results and options *)

Ok(v) == [ok |-> TRUE, why |-> "", val |-> v]

Fail(w) == [ok |-> FALSE, why |-> w, val |-> <<>>]

None == <<>>

Some(v) == <<v>>

IsSome(o) == o # <<>>

\* The `?` of a Result: a failure is the result, a value goes on into f.
AndThen(r, f(_)) == IF r.ok THEN f(r.val) ELSE r

\* Result::map
MapOk(r, f(_)) == IF r.ok THEN Ok(f(r.val)) ELSE r

\* Result::unwrap_or
UnwrapOr(r, v) == IF r.ok THEN r.val ELSE v

Abs(n) == IF n < 0 THEN -n ELSE n

\* Rust's `/` on integers: the quotient truncated toward zero (b # 0).
TDiv(a, b) ==
    LET floor(n, d) == n \div d
        trunc(n, d) == IF n < 0 /\ floor(n, d) * d # n THEN floor(n, d) + 1
                       ELSE floor(n, d)
    IN  IF b > 0 THEN trunc(a, b) ELSE -trunc(a, -b)

\* Rust's `%` on integers: the remainder has the sign of the dividend (b # 0).
TRem(a, b) == a - b * TDiv(a, b)

I32Max == 2147483647

\* Whether a * b leaves the i32 range.
MulOverflows(a, b) == a # 0 /\ b # 0 /\ Abs(a) > I32Max \div Abs(b)

\* Whether a + b leaves the i32 range.
AddOverflows(a, b) ==
    \/ a > 0 /\ b > I32Max - a
    \/ a < 0 /\ b < (-I32Max - 1) - a

-----------------------------------------------------------------------------
(* tile_type.rs *)

mod2(x, m) ==
    LET y == TRem(x, m) IN IF y >= 0 THEN y ELSE m + y

\* div2 as the quotient rounded towards zero.
div2_trunc(x, d) == TDiv(x, d)

div2(x, d) == IF x >= 0 THEN TDiv(x, d) ELSE TDiv(x, d) - 1

Ortho(w, h) == [kind |-> "Ortho", width |-> w, height |-> h]

Isometric(w, h, st, so, sy) ==
    [kind |-> "Isometric", width |-> w, height |-> h, stagger |-> st,
     stagger_odd |-> so, stagger_y |-> sy]

Hexagonal(w, h, so, sy, sl) ==
    [kind |-> "Hexagonal", width |-> w, height |-> h, stagger_odd |-> so,
     stagger_y |-> sy, side_length |-> sl]

\* A stagger test that forgets the parity flag: `if y % 2 == 1`.
stagger_shift_no_parity(t, i, j, dim) ==
    IF TRem(j, 2) = 1 THEN i * dim + TDiv(dim, 2) ELSE i * dim

\* The x (or y) of a staggered row (or column): `if (y % 2 == 1) == stagger_odd`.
stagger_shift(t, i, j, dim) ==
    IF (TRem(j, 2) = 1) = t.stagger_odd THEN i * dim + TDiv(dim, 2) ELSE i * dim

coord_to_pos_ortho(t, x, y) ==
    IF MulOverflows(x, t.width) \/ MulOverflows(y, t.height)
    THEN Fail("overflow")
    ELSE Ok(<<x * t.width, y * t.height>>)

coord_to_pos_stagger(t, x, y) ==
    LET w == t.width
        h == t.height
    IN  IF MulOverflows(x, w) \/ MulOverflows(y, h)
        THEN Fail("overflow")
        ELSE IF t.stagger_y
             THEN Ok(<<stagger_shift(t, x, y, w), TDiv(h * y, 2)>>)
             ELSE Ok(<<TDiv(w * x, 2), stagger_shift(t, y, x, h)>>)

coord_to_pos_iso(t, lh, x, y) ==
    LET w == t.width
        h == t.height
    IN  IF \/ MulOverflows(w, x) \/ MulOverflows(w, lh - 1 - y)
           \/ MulOverflows(h, x) \/ MulOverflows(h, y)
        THEN Fail("overflow")
        ELSE IF AddOverflows(w * x, w * (lh - 1 - y)) \/ AddOverflows(h * x, h * y)
        THEN Fail("overflow")
        ELSE Ok(<<TDiv(w * x + w * (lh - 1 - y), 2), TDiv(h * x + h * y, 2)>>)

\* `((height + side_length) / 2 - 1) as i32`, computed in u32.
hex_pitch(dim, sl) == (dim + sl) \div 2 - 1

coord_to_pos_hex(t, x, y) ==
    LET w == t.width
        h == t.height
        sl == t.side_length
    IN  IF t.stagger_y
        THEN IF \/ hex_pitch(h, sl) < 0 \/ MulOverflows(x, w)
                \/ MulOverflows(hex_pitch(h, sl), y)
             THEN Fail("overflow")
             ELSE Ok(<<stagger_shift(t, x, y, w), hex_pitch(h, sl) * y>>)
        ELSE IF \/ hex_pitch(w, sl) < 0 \/ MulOverflows(y, h)
                \/ MulOverflows(hex_pitch(w, sl), x)
             THEN Fail("overflow")
             ELSE Ok(<<hex_pitch(w, sl) * x, stagger_shift(t, y, x, h)>>)

coord_to_pos(t, lh, x, y) ==
    CASE t.kind = "Ortho" -> coord_to_pos_ortho(t, x, y)
      [] t.kind = "Isometric" ->
            IF t.stagger THEN coord_to_pos_stagger(t, x, y)
            ELSE coord_to_pos_iso(t, lh, x, y)
      [] t.kind = "Hexagonal" -> coord_to_pos_hex(t, x, y)

\* An Ortho inverse that divides y by the width.
pos_to_coord_ortho_square(t, x, y) ==
    IF t.width = 0 \/ t.height = 0 THEN Fail("panic")
    ELSE Ok(<<TDiv(x, t.width), TDiv(y, t.width)>>)

pos_to_coord_ortho(t, x, y) ==
    IF t.width = 0 \/ t.height = 0 THEN Fail("panic")
    ELSE Ok(<<TDiv(x, t.width), TDiv(y, t.height)>>)

\* The cell the `match (stagger_y, top, left, right)` of the staggered
\* isometric inverse selects.
stagger_cell(sy, top, left, right, ref_x, ref_y) ==
    IF sy
    THEN CASE top /\ left /\ ~right -> <<ref_x - 1, ref_y * 2 - 1>>
           [] top /\ ~left /\ right -> <<ref_x, ref_y * 2 - 1>>
           [] ~top /\ left /\ ~right -> <<ref_x - 1, ref_y * 2 + 1>>
           [] ~top /\ ~left /\ right -> <<ref_x, ref_y * 2 + 1>>
           [] OTHER -> <<ref_x, ref_y * 2>>
    ELSE CASE top /\ left /\ ~right -> <<ref_x * 2 - 1, ref_y - 1>>
           [] top /\ ~left /\ right -> <<ref_x * 2 + 1, ref_y - 1>>
           [] ~top /\ left /\ ~right -> <<ref_x * 2 - 1, ref_y>>
           [] ~top /\ ~left /\ right -> <<ref_x * 2 + 1, ref_y>>
           [] OTHER -> <<ref_x * 2, ref_y>>

pos_to_coord_stagger(t, px, py) ==
    LET w == t.width
        h == t.height
        half_w == TDiv(w, 2)
        half_h == TDiv(h, 2)
        so == t.stagger_odd
        sy == t.stagger_y
        x == IF ~so /\ ~sy THEN px - half_w ELSE px
        y == IF ~so /\ sy THEN py - half_h ELSE py
        off_x == IF ~so /\ ~sy THEN 1 ELSE 0
        off_y == IF ~so /\ sy THEN 1 ELSE 0
    IN  IF w = 0 \/ h = 0 \/ half_h = 0 THEN Fail("panic")
        ELSE
        LET ref_x == div2(x, w)
            ref_y == div2(y, h)
            rel_x == x - ref_x * w
            rel_y == y - ref_y * h
            offset == IF rel_y < half_h
                      THEN TDiv((half_h - TRem(rel_y, half_h)) * half_w, half_h)
                      ELSE TDiv(TRem(rel_y, half_h) * half_w, half_h)
            top == rel_y < half_h
            left == rel_x < offset
            right == rel_x > w - offset
            c == stagger_cell(sy, top, left, right, ref_x, ref_y)
        IN  Ok(<<c[1] + off_x, c[2] + off_y>>)

\* The inverse with x / width rounded down instead of towards zero.
pos_to_coord_iso_floor(t, lh, px, py) ==
    IF MulOverflows(t.width, lh) THEN Fail("overflow")
    ELSE IF t.width = 0 \/ t.height = 0 THEN Fail("panic")
    ELSE Ok(<<TDiv(py, t.height) + ((px - TDiv(t.width * lh, 2)) \div t.width),
              TDiv(py, t.height) - ((px - TDiv(t.width * lh, 2)) \div t.width)>>)

pos_to_coord_iso(t, lh, px, py) ==
    LET w == t.width
        h == t.height
    IN  IF MulOverflows(w, lh) THEN Fail("overflow")
        ELSE IF w = 0 \/ h = 0 THEN Fail("panic")
        ELSE LET origin == TDiv(w * lh, 2)
                 x == px - origin
             IN  Ok(<<TDiv(py, h) + TDiv(x, w), TDiv(py, h) - TDiv(x, w)>>)

\* Squared distance of a candidate centre <<cx, cy, x, y>> to (rel_x, rel_y).
center_key(c, rel_x, rel_y) ==
    (c[1] - rel_x) * (c[1] - rel_x) + (c[2] - rel_y) * (c[2] - rel_y)

\* Iterator::min_by_key over the three centres: the first minimal element.
nearest_center(centers, rel_x, rel_y) ==
    LET k(i) == center_key(centers[i], rel_x, rel_y)
        best == CHOOSE i \in 1..3 :
                    /\ \A j \in 1..3 : k(i) <= k(j)
                    /\ \A j \in 1..(i - 1) : k(j) > k(i)
    IN  <<centers[best][3], centers[best][4]>>

pos_to_coord_hex(t, x, y) ==
    LET w == t.width
        h == t.height
        sl == t.side_length
        so == t.stagger_odd
        half_w == TDiv(w, 2)
        half_h == TDiv(h, 2)
    IN  IF t.stagger_y
        THEN LET col_w == w
                 row_h == TDiv(h - sl, 2) + sl - 1
             IN  IF col_w = 0 \/ row_h = 0 THEN Fail("panic")
                 ELSE
                 LET ref_x == div2(x, col_w)
                     ref_y == div2(y, row_h)
                     rel_x == x - ref_x * col_w
                     rel_y == y - ref_y * row_h
                     centers ==
                         IF (mod2(ref_y, 2) = 1) = so
                         THEN << <<half_w, -row_h + half_h, ref_x, ref_y - 1>>,
                                 <<0, half_h, ref_x - 1, ref_y>>,
                                 <<col_w, half_h, ref_x, ref_y>> >>
                         ELSE << <<half_w, half_h, ref_x, ref_y>>,
                                 <<0, -row_h + half_h, ref_x - 1, ref_y - 1>>,
                                 <<col_w, -row_h + half_h, ref_x, ref_y - 1>> >>
                 IN  Ok(nearest_center(centers, rel_x, rel_y))
        ELSE LET col_w == TDiv(w - sl, 2) + sl - 1
                 row_h == h
             IN  IF col_w = 0 \/ row_h = 0 THEN Fail("panic")
                 ELSE
                 LET ref_x == div2(x, col_w)
                     ref_y == div2(y, row_h)
                     rel_x == x - ref_x * col_w
                     rel_y == y - ref_y * row_h
                     centers ==
                         IF (mod2(ref_x, 2) = 1) = so
                         THEN << <<-col_w + half_w, half_h, ref_x - 1, ref_y>>,
                                 <<half_w, 0, ref_x, ref_y - 1>>,
                                 <<half_w, row_h, ref_x, ref_y>> >>
                         ELSE << <<half_w, half_h, ref_x, ref_y>>,
                                 <<-col_w + half_w, 0, ref_x - 1, ref_y - 1>>,
                                 <<-col_w + half_w, row_h, ref_x - 1, ref_y>> >>
                 IN  Ok(nearest_center(centers, rel_x, rel_y))

pos_to_coord(t, lh, x, y) ==
    CASE t.kind = "Ortho" -> pos_to_coord_ortho(t, x, y)
      [] t.kind = "Isometric" ->
            IF t.stagger THEN pos_to_coord_stagger(t, x, y)
            ELSE pos_to_coord_iso(t, lh, x, y)
      [] t.kind = "Hexagonal" -> pos_to_coord_hex(t, x, y)

-----------------------------------------------------------------------------
(* Idle values: a specification leaves the other machines' variables here *)

DataIdle ==
    /\ data_doc = <<>> /\ data_events = <<>> /\ data = <<>>
    /\ data_res = "idle" /\ tile_ids = <<>>

NoLookup == [fn |-> "", gid |-> 0, result |-> <<>>]

MapIdle ==
    /\ tilesets = <<>> /\ layers = <<>> /\ stack = <<>> /\ docs = <<>>
    /\ map_res = "idle" /\ overflow_checks = FALSE /\ lookup = NoLookup

ObjIdle == obj_doc = <<>> /\ object = Fail("idle")

CallIdle == args = [fn |-> ""] /\ returned = Fail("idle")

\* Objects { l, i, z, sub }
Objects(l, i, z, sub) == [l |-> l, i |-> i, z |-> z, sub |-> sub]

IterIdle == iter = None /\ yielded = <<>>

TexIdle == texture = None /\ tasks = <<>> /\ assets = <<>>

-----------------------------------------------------------------------------
(* Bounds of the geometry machine *)

MaxDim == 4

MaxCoord == 3

MaxNegCoord == 2

BigCoord == 536870912

MaxLayerHeight == 2

Dims == 0..MaxDim

TileTypes ==
    {Ortho(w, h) : w \in Dims, h \in Dims}
    \cup {Isometric(d[1], d[2], b[1], b[2], b[3]) :
              d \in Dims \X Dims, b \in BOOLEAN \X BOOLEAN \X BOOLEAN}
    \cup {Hexagonal(d[1], d[2], b[1], b[2], d[3]) :
              d \in Dims \X Dims \X Dims, b \in BOOLEAN \X BOOLEAN}

Coords == ((-MaxNegCoord)..MaxCoord) \cup {BigCoord}

\* layer_height is read by the non-staggered isometric layout only.
LayerHeights(t) ==
    IF t.kind = "Isometric" /\ ~t.stagger THEN 1..MaxLayerHeight ELSE {1}

\* The centre of a tile's bounding box, relative to its top left corner.
HalfTile(t) == <<TDiv(t.width, 2), TDiv(t.height, 2)>>

QueryOffsets(t) == {<<0, 0>>, HalfTile(t)}

GeoIdle ==
    /\ tile_type = Ortho(0, 0) /\ layer_height = 0 /\ coord = <<0, 0>>
    /\ pos = Fail("") /\ query = <<0, 0>> /\ back = Fail("") /\ gpc = "idle"

GeoInit ==
    /\ DataIdle /\ MapIdle /\ ObjIdle /\ CallIdle /\ IterIdle /\ TexIdle
    /\ tile_type \in TileTypes
    /\ layer_height = 0 /\ coord = <<0, 0>>
    /\ pos = Fail("") /\ query = <<0, 0>> /\ back = Fail("") /\ gpc = "start"

CoordToPos(lh, x, y) ==
    /\ gpc = "start"
    /\ layer_height' = lh
    /\ coord' = <<x, y>>
    /\ pos' = coord_to_pos(tile_type, lh, x, y)
    /\ gpc' = "pos"
    /\ UNCHANGED <<tile_type, query, back>>
    /\ UNCHANGED notGeo

PosToCoord(d) ==
    /\ gpc = "pos"
    /\ pos.ok
    /\ query' = <<pos.val[1] + d[1], pos.val[2] + d[2]>>
    /\ back' = pos_to_coord(tile_type, layer_height, pos.val[1] + d[1], pos.val[2] + d[2])
    /\ gpc' = "coord"
    /\ UNCHANGED <<tile_type, layer_height, coord, pos>>
    /\ UNCHANGED notGeo

GeoNext ==
    \/ \E lh \in LayerHeights(tile_type), x \in Coords, y \in Coords :
            CoordToPos(lh, x, y)
    \/ \E d \in QueryOffsets(tile_type) : PosToCoord(d)

SpecGeometry == GeoInit /\ [][GeoNext]_vars

-----------------------------------------------------------------------------
(* Claims about the geometry *)

\* The round trip has been made from the pixel coord_to_pos returned.
AtTopLeft == gpc = "coord" /\ query = pos.val

\* The round trip has been made from the centre of the tile's bounding box.
AtCentre ==
    /\ gpc = "coord"
    /\ query = <<pos.val[1] + HalfTile(tile_type)[1], pos.val[2] + HalfTile(tile_type)[2]>>

Forwarded == gpc \in {"pos", "coord"}

NonNegCoord == coord[1] >= 0 /\ coord[2] >= 0

EvenPositive(n) == n > 0 /\ n % 2 = 0

IsStaggeredIso == tile_type.kind = "Isometric" /\ tile_type.stagger

IsHex == tile_type.kind = "Hexagonal"

IsOrtho == tile_type.kind = "Ortho"

\* C6 as stated: for a staggered isometric TileType with positive width and
\* height, pos_to_coord(coord_to_pos(x, y)) = (x, y) for every tile
\* coordinate (x, y).
C6_RoundTripTopLeft ==
    (IsStaggeredIso /\ tile_type.width > 0 /\ tile_type.height > 0 /\ AtTopLeft)
        => (back.ok /\ back.val = coord)

\* C6 amended: for a staggered isometric TileType with even positive width
\* and height, either stagger axis and parity, and every non-negative tile
\* coordinate (x, y) whose pixel position does not overflow i32,
\* pos_to_coord at the centre of the tile's bounding box,
\* coord_to_pos(x, y) + (width / 2, height / 2), returns (x, y).
C6_RoundTripCentre ==
    (/\ IsStaggeredIso
     /\ EvenPositive(tile_type.width) /\ EvenPositive(tile_type.height)
     /\ NonNegCoord /\ Forwarded
     /\ ~MulOverflows(coord[1], tile_type.width)
     /\ ~MulOverflows(coord[2], tile_type.height))
        => /\ pos.ok
           /\ AtCentre => (back.ok /\ back.val = coord)

C6_Witness ==
    /\ IsStaggeredIso /\ AtCentre /\ ~tile_type.stagger_odd /\ tile_type.stagger_y
    /\ tile_type.width = 4 /\ tile_type.height = 2
    /\ coord = <<2, 3>> /\ back.ok /\ back.val = coord

\* C7 as stated: for a hexagonal TileType with positive width, height and
\* side_length, pos_to_coord(coord_to_pos(x, y)) = (x, y) for every tile
\* coordinate (x, y).
C7_RoundTripTopLeft ==
    (/\ IsHex /\ tile_type.width > 0 /\ tile_type.height > 0
     /\ tile_type.side_length > 0 /\ AtTopLeft)
        => (back.ok /\ back.val = coord)

\* C7 amended: for a hexagonal TileType with even positive width, height and
\* side_length, either stagger axis and parity, and every non-negative tile
\* coordinate (x, y) whose pixel position does not overflow i32,
\* pos_to_coord at the centre of the tile's bounding box,
\* coord_to_pos(x, y) + (width / 2, height / 2), returns (x, y).
C7_RoundTripCentre ==
    (/\ IsHex
     /\ EvenPositive(tile_type.width) /\ EvenPositive(tile_type.height)
     /\ EvenPositive(tile_type.side_length)
     /\ NonNegCoord /\ Forwarded
     /\ ~MulOverflows(coord[1], IF tile_type.stagger_y THEN tile_type.width
                                 ELSE hex_pitch(tile_type.width, tile_type.side_length))
     /\ ~MulOverflows(coord[2], IF tile_type.stagger_y
                                 THEN hex_pitch(tile_type.height, tile_type.side_length)
                                 ELSE tile_type.height))
        => /\ pos.ok
           /\ AtCentre => (back.ok /\ back.val = coord)

C7_Witness ==
    /\ IsHex /\ AtCentre /\ tile_type.stagger_odd /\ ~tile_type.stagger_y
    /\ tile_type.width = 4 /\ tile_type.height = 4 /\ tile_type.side_length = 2
    /\ coord = <<3, 1>> /\ back.ok /\ back.val = coord

\* C8 as stated: for an Ortho TileType, pos_to_coord(coord_to_pos(x, y)) =
\* (x, y) for all x, y >= 0.
C8_OrthoRoundTripAny ==
    (IsOrtho /\ NonNegCoord /\ AtTopLeft) => (back.ok /\ back.val = coord)

\* C8 amended: for an Ortho TileType with positive width and height,
\* pos_to_coord(coord_to_pos(x, y)) = (x, y) for all x, y >= 0 for which
\* x * width and y * height do not overflow i32.
C8_OrthoRoundTrip ==
    (/\ IsOrtho /\ tile_type.width > 0 /\ tile_type.height > 0
     /\ NonNegCoord /\ Forwarded
     /\ ~MulOverflows(coord[1], tile_type.width)
     /\ ~MulOverflows(coord[2], tile_type.height))
        => /\ pos.ok
           /\ AtTopLeft => (back.ok /\ back.val = coord)

C8_Witness ==
    /\ IsOrtho /\ AtTopLeft /\ tile_type.width = 3 /\ tile_type.height = 2
    /\ coord = <<2, 3>> /\ pos.val = <<6, 6>> /\ back.ok /\ back.val = <<2, 3>>

-----------------------------------------------------------------------------
(* parse.rs: Data, parse_data.  Text is a sequence of ASCII codes. *)

RECURSIVE SeqSum(_)
SeqSum(q) == IF q = <<>> THEN 0 ELSE Head(q) + SeqSum(Tail(q))

\* Concatenation of a sequence of sequences.
RECURSIVE Flatten(_)
Flatten(qs) == IF qs = <<>> THEN <<>> ELSE Head(qs) \o Flatten(Tail(qs))

IsWhitespace(c) == c \in {9, 10, 11, 12, 13, 32}

\* str::trim
RECURSIVE TrimStart(_)
TrimStart(t) ==
    IF t # <<>> /\ IsWhitespace(Head(t)) THEN TrimStart(Tail(t)) ELSE t

RECURSIVE TrimEnd(_)
TrimEnd(t) ==
    IF t # <<>> /\ IsWhitespace(t[Len(t)])
    THEN TrimEnd(SubSeq(t, 1, Len(t) - 1)) ELSE t

Trim(t) == TrimEnd(TrimStart(t))

\* str::split(sep): the pieces between the separators (at least one piece).
RECURSIVE SplitAcc(_, _, _)
SplitAcc(t, sep, cur) ==
    IF t = <<>> THEN <<cur>>
    ELSE IF Head(t) = sep THEN <<cur>> \o SplitAcc(Tail(t), sep, <<>>)
    ELSE SplitAcc(Tail(t), sep, Append(cur, Head(t)))

Split(t, sep) == SplitAcc(t, sep, <<>>)

\* str::replace(c, "")
Remove(t, c) == SelectSeq(t, LAMBDA x : x # c)

(* u32 values as <<hi, lo>>, two 16-bit halves *)

Two16 == 65536

U32(hi, lo) == <<hi, lo>>

\* `b as u32`
U32OfByte(b) == U32(0, b)

RECURSIVE BitOr(_, _)
BitOr(a, b) ==
    IF a = 0 THEN b
    ELSE IF b = 0 THEN a
    ELSE (IF a % 2 = 1 \/ b % 2 = 1 THEN 1 ELSE 0) + 2 * BitOr(a \div 2, b \div 2)

\* u32 `|`
Or32(a, b) == U32(BitOr(a[1], b[1]), BitOr(a[2], b[2]))

\* u32 `<<` by one bit, then by k bits: the bits shifted out are lost.
Shl1(a) == U32((a[1] * 2 + a[2] \div 32768) % Two16, (a[2] * 2) % Two16)

RECURSIVE Shl32(_, _)
Shl32(a, k) == IF k = 0 THEN a ELSE Shl32(Shl1(a), k - 1)

\* The closure of into_vec_u32 with the bytes taken in the opposite order.
chunk_to_u32_big_endian(chunk) ==
    Or32(Or32(Or32(U32OfByte(chunk[4]), Shl32(U32OfByte(chunk[3]), 8)),
              Shl32(U32OfByte(chunk[2]), 16)),
         Shl32(U32OfByte(chunk[1]), 24))

\* The closure of into_vec_u32 (chunk[0] is chunk[1] here).
chunk_to_u32(chunk) ==
    Or32(Or32(Or32(U32OfByte(chunk[1]), Shl32(U32OfByte(chunk[2]), 8)),
              Shl32(U32OfByte(chunk[3]), 16)),
         Shl32(U32OfByte(chunk[4]), 24))

\* slice::chunks_exact(4): the whole chunks, the remainder dropped.
chunks_exact4(v) ==
    [i \in 1..(Len(v) \div 4) |-> SubSeq(v, 4 * i - 3, 4 * i)]

DataU8(v) == [tag |-> "U8", v |-> v]

DataU32(v) == [tag |-> "U32", v |-> v]

into_vec_u32(d) ==
    IF d.tag = "U8"
    THEN [i \in 1..(Len(d.v) \div 4) |-> chunk_to_u32(chunks_exact4(d.v)[i])]
    ELSE d.v

(* u32::from_str, used by the csv branch *)

IsDigit(c) == c \in 48..57

\* acc * 10 + d in u32: Ok(<<hi, lo>>), or an error when it exceeds u32::MAX.
CheckedU32(hi, lo) == IF hi >= Two16 THEN Fail("err") ELSE Ok(U32(hi, lo))

MulAdd10(acc, d) ==
    CheckedU32(acc[1] * 10 + (acc[2] * 10 + d) \div Two16,
               (acc[2] * 10 + d) % Two16)

RECURSIVE ParseDigits(_, _)
ParseDigits(t, acc) ==
    IF t = <<>> THEN Ok(acc)
    ELSE IF ~IsDigit(Head(t)) THEN Fail("err")
    ELSE AndThen(MulAdd10(acc, Head(t) - 48), LAMBDA v : ParseDigits(Tail(t), v))

\* str::parse::<u32>: decimal digits after an optional '+'.
SkipPlus(t) == IF t # <<>> /\ Head(t) = 43 THEN Tail(t) ELSE t

ParseU32(t) ==
    IF SkipPlus(t) = <<>> THEN Fail("err") ELSE ParseDigits(SkipPlus(t), U32(0, 0))

\* `.parse().unwrap_or(0)`
ParseU32OrZero(t) == UnwrapOr(ParseU32(t), U32(0, 0))

\* The split without the filter of blank tokens.
csv_tokens_keep_blank(t) == Split(t, 44)

\* The csv branch of parse_data.
csv_tokens(t) == SelectSeq(Split(t, 44), LAMBDA v : Trim(v) # <<>>)

decode_csv_text(t) ==
    [i \in 1..Len(csv_tokens(t)) |-> ParseU32OrZero(Remove(csv_tokens(t)[i], 13))]

(* base64::decode, standard alphabet with padding *)

B64Pad == 61

B64Index(c) ==
    CASE c \in 65..90 -> c - 65
      [] c \in 97..122 -> c - 97 + 26
      [] c \in 48..57 -> c - 48 + 52
      [] c = 43 -> 62
      [] c = 47 -> 63
      [] OTHER -> -1

\* The bytes of one group of four symbols; n is the number of pad symbols.
B64Group(g, n) ==
    LET a == B64Index(g[1])
        b == B64Index(g[2])
        c == IF n >= 2 THEN 0 ELSE B64Index(g[3])
        d == IF n >= 1 THEN 0 ELSE B64Index(g[4])
        all == <<a * 4 + b \div 16, (b % 16) * 16 + c \div 4, (c % 4) * 64 + d>>
    IN  SubSeq(all, 1, 3 - n)

base64_decode(t) ==
    LET n == Len(t)
        pads == IF n >= 2 /\ t[n] = B64Pad /\ t[n - 1] = B64Pad THEN 2
                ELSE IF n >= 1 /\ t[n] = B64Pad THEN 1 ELSE 0
    IN  IF \/ n % 4 # 0
           \/ \E i \in 1..(n - pads) : B64Index(t[i]) < 0
        THEN Fail("err")
        ELSE Ok(Flatten([k \in 1..(n \div 4) |->
                    B64Group(SubSeq(t, 4 * k - 3, 4 * k),
                             IF k = n \div 4 THEN pads ELSE 0)]))

(* libflate: a compressed stream is modelled as the format's magic bytes     *)
(* followed by the stored payload; the decoder fails on any other magic.     *)

ZlibMagic == <<120, 156>>

GzipMagic == <<31, 139>>

HasPrefix(v, m) == Len(v) >= Len(m) /\ SubSeq(v, 1, Len(m)) = m

\* libflate::zlib::Decoder::new(..)? and read_to_end(..)?
zlib_inflate(v) ==
    IF HasPrefix(v, ZlibMagic) THEN Ok(SubSeq(v, 3, Len(v))) ELSE Fail("err")

\* libflate::gzip::Decoder::new(..)? and read_to_end(..)?
gzip_inflate(v) ==
    IF HasPrefix(v, GzipMagic) THEN Ok(SubSeq(v, 3, Len(v))) ELSE Fail("err")

\* The attribute loop of parse_data: the four flags.
data_flags(attrs) ==
    [decode_csv |-> attrs.encoding = "csv",
     decode_base64 |-> attrs.encoding = "base64",
     decompress_z |-> attrs.compression = "zlib",
     decompress_g |-> attrs.compression = "glib"]

\* The base64 branch of parse_data, for the flags f.
decode_base64_text(f, t) ==
    AndThen(base64_decode(Trim(t)),
            LAMBDA b : IF f.decompress_z THEN zlib_inflate(b)
                       ELSE IF f.decompress_g THEN gzip_inflate(b)
                       ELSE Ok(b))

\* The handler of XmlEvent::Characters(s) in parse_data.
decode_characters(attrs, t) ==
    IF data_flags(attrs).decode_csv THEN Ok(DataU32(decode_csv_text(t)))
    ELSE IF data_flags(attrs).decode_base64
    THEN AndThen(decode_base64_text(data_flags(attrs), t), LAMBDA b : Ok(DataU8(b)))
    ELSE Fail("err")

-----------------------------------------------------------------------------
(* The data element of a tile layer: the documents read, and the reader loop *)
(* of parse_data followed by into_vec_u32 in the caller (parse_tiles).       *)

MaxTiles == 2

MaxLead == 1

\* Tile ids written into documents: 0, 1, 0x00010201 and u32::MAX.
TileIds == {U32(0, 0), U32(0, 1), U32(1, 513), U32(65535, 65535)}

RECURSIVE SeqsUpTo(_, _)
SeqsUpTo(S, n) ==
    IF n = 0 THEN {<<>>}
    ELSE LET shorter == SeqsUpTo(S, n - 1)
         IN  shorter \cup {Append(q, x) : q \in {r \in shorter : Len(r) = n - 1}, x \in S}

\* What a writer of the format does: u32::to_le_bytes of every id.
to_le_bytes(id) == <<id[2] % 256, id[2] \div 256, id[1] % 256, id[1] \div 256>>

LeBytes(ids) == Flatten([i \in 1..Len(ids) |-> to_le_bytes(ids[i])])

\* The stream a writer produces for a payload in the given container.
Contain(container, payload) ==
    CASE container = "zlib" -> ZlibMagic \o payload
      [] container = "gzip" -> GzipMagic \o payload
      [] OTHER -> payload

B64Symbol(i) ==
    CASE i < 26 -> 65 + i
      [] i < 52 -> 97 + i - 26
      [] i < 62 -> 48 + i - 52
      [] i = 62 -> 43
      [] OTHER -> 47

\* Standard padded base64 of a byte sequence.
RECURSIVE base64_encode(_)
base64_encode(v) ==
    IF v = <<>> THEN <<>>
    ELSE IF Len(v) = 1
    THEN <<B64Symbol(v[1] \div 4), B64Symbol((v[1] % 4) * 16), B64Pad, B64Pad>>
    ELSE IF Len(v) = 2
    THEN <<B64Symbol(v[1] \div 4), B64Symbol((v[1] % 4) * 16 + v[2] \div 16),
           B64Symbol((v[2] % 16) * 4), B64Pad>>
    ELSE <<B64Symbol(v[1] \div 4), B64Symbol((v[1] % 4) * 16 + v[2] \div 16),
           B64Symbol((v[2] % 16) * 4 + v[3] \div 64), B64Symbol(v[3] % 64)>>
         \o base64_encode(SubSeq(v, 4, Len(v)))

\* Text nodes are written bare or on a line of their own, indented.
Wrap(wrapped, t) == IF wrapped THEN <<10, 32, 32>> \o t \o <<10, 32>> ELSE t

MaxTokens == 3

\* The tokens a csv text is written from: numbers ("1", "23"), blanks ("" and
\* " "), text that is no number ("x"), and numbers at the end of a line, before
\* CR LF ("4\r\n") or before a lone CR ("5\r").
CsvTokens ==
    {[text |-> <<49>>, kind |-> "number", val |-> 1],
     [text |-> <<50, 51>>, kind |-> "number", val |-> 23],
     [text |-> <<>>, kind |-> "blank", val |-> 0],
     [text |-> <<32>>, kind |-> "blank", val |-> 0],
     [text |-> <<120>>, kind |-> "word", val |-> 0],
     [text |-> <<52, 13, 10>>, kind |-> "crlf", val |-> 4],
     [text |-> <<53, 13>>, kind |-> "cr", val |-> 5]}

CsvTokenSeqs == SeqsUpTo(CsvTokens, MaxTokens) \ {<<>>}

\* The tokens joined by ','.
RECURSIVE CsvJoin(_)
CsvJoin(tk) ==
    IF Len(tk) = 1 THEN tk[1].text
    ELSE tk[1].text \o <<44>> \o CsvJoin(Tail(tk))

\* "1,2", "7", "" and "1,*" (the last with a bad token), and every text
\* written from at most MaxTokens tokens.
CsvTexts ==
    {<<49, 44, 50>>, <<55>>, <<>>, <<49, 44, 42>>}
        \cup {CsvJoin(tk) : tk \in CsvTokenSeqs}

Encodings == {"", "csv", "base64", "lzma"}

Compressions == {"", "zlib", "gzip", "glib"}

Containers == {"raw", "zlib", "gzip"}

\* The documents: attributes, leading child elements, and an optional text node
\* holding either base64 of a container around little-endian ids, or csv text.
Base64Docs ==
    [attrs : [encoding : Encodings, compression : Compressions],
     kind : {"base64"},
     tiles : SeqsUpTo(TileIds, MaxTiles),
     container : Containers,
     wrapped : BOOLEAN,
     csv : {<<>>},
     lead : 0..MaxLead,
     chars : BOOLEAN]

CsvDocs ==
    [attrs : [encoding : {"csv", ""}, compression : {""}],
     kind : {"csv"},
     tiles : {<<>>},
     container : {"raw"},
     wrapped : BOOLEAN,
     csv : CsvTexts,
     lead : 0..MaxLead,
     chars : {TRUE}]

DataDocs == Base64Docs \cup CsvDocs

DocText(d) ==
    IF d.kind = "csv" THEN Wrap(d.wrapped, d.csv)
    ELSE Wrap(d.wrapped, base64_encode(Contain(d.container, LeBytes(d.tiles))))

\* The white space of XML: space, tab, line feed, carriage return.
IsXmlSpace(c) == c \in {32, 9, 10, 13}

\* The event the reader yields for a text node: none for no text, Whitespace
\* for text of white space only, Characters otherwise.
TextEvents(t) ==
    IF t = <<>> THEN <<>>
    ELSE IF \A i \in 1..Len(t) : IsXmlSpace(t[i])
    THEN <<[ev |-> "Whitespace", text |-> t]>>
    ELSE <<[ev |-> "Characters", text |-> t]>>

\* The events the reader yields inside the data element.
DocEvents(d) ==
    [i \in 1..d.lead |-> [ev |-> "StartElement", text |-> <<>>]]
    \o (IF d.chars THEN TextEvents(DocText(d)) ELSE <<>>)
    \o <<[ev |-> "EndElement", text |-> <<>>]>>

DataInit ==
    /\ GeoIdle /\ MapIdle /\ ObjIdle /\ CallIdle /\ IterIdle /\ TexIdle
    /\ data_doc \in DataDocs
    /\ data_events = DocEvents(data_doc)
    /\ data = DataU32(<<>>)
    /\ data_res = "run"
    /\ tile_ids = <<>>

\* XmlEvent::StartElement: parse_empty skips the child element.
DataStartElement ==
    /\ data_res = "run"
    /\ Head(data_events).ev = "StartElement"
    /\ data_events' = Tail(data_events)
    /\ UNCHANGED <<data_doc, data, data_res, tile_ids, notData>>

\* `result = ..?` in the Characters arm: keep r's value, or leave by `?`.
Decoded(r) ==
    IF r.ok
    THEN /\ data' = r.val
         /\ data_events' = Tail(data_events)
         /\ data_res' = data_res
    ELSE /\ data' = data
         /\ data_events' = <<>>
         /\ data_res' = "err"

\* XmlEvent::Characters(s): decode the text, or leave with the error.
DataCharacters ==
    /\ data_res = "run"
    /\ Head(data_events).ev = "Characters"
    /\ Decoded(decode_characters(data_doc.attrs, Head(data_events).text))
    /\ UNCHANGED <<data_doc, tile_ids, notData>>

\* Any other event (`_ => true`): white space between elements is passed over.
DataOtherEvent ==
    /\ data_res = "run"
    /\ Head(data_events).ev = "Whitespace"
    /\ data_events' = Tail(data_events)
    /\ UNCHANGED <<data_doc, data, data_res, tile_ids, notData>>

\* XmlEvent::EndElement: Ok(result), which parse_tiles turns into tile ids.
DataEndElement ==
    /\ data_res = "run"
    /\ Head(data_events).ev = "EndElement"
    /\ data_events' = Tail(data_events)
    /\ data_res' = "ok"
    /\ tile_ids' = into_vec_u32(data)
    /\ UNCHANGED <<data_doc, data, notData>>

DataNext == DataStartElement \/ DataCharacters \/ DataOtherEvent \/ DataEndElement

SpecData == DataInit /\ [][DataNext]_vars

-----------------------------------------------------------------------------
(* Claims about the tile data *)

DataFinished == data_res \in {"ok", "err"}

\* The reader yields a Characters event inside the element.
HasCharacters == \E i \in 1..Len(DocEvents(data_doc)) : DocEvents(data_doc)[i].ev = "Characters"

\* The document is base64 text that the decoder was told how to open.
DataConsistent ==
    /\ data_doc.kind = "base64" /\ data_doc.chars
    /\ data_doc.attrs.encoding = "base64"
    /\ \/ data_doc.attrs.compression = "" /\ data_doc.container = "raw"
       \/ data_doc.attrs.compression = "zlib" /\ data_doc.container = "zlib"

\* id = b0 + 2^8 b1 + 2^16 b2 + 2^24 b3, on the two halves of the id.
IsLittleEndianOf(id, b0, b1, b2, b3) ==
    /\ id[2] = b0 + 256 * b1
    /\ id[1] = b2 + 256 * b3

\* C9: a decoded (and inflated) byte buffer b of length 4n gives exactly n
\* tile ids in document order, id_i = b[4i] + 2^8 b[4i+1] + 2^16 b[4i+2] +
\* 2^24 b[4i+3]; and ids written little-endian (raw or zlib, base64) are read
\* back as exactly those ids.
C9_LittleEndianIds ==
    /\ (data_res = "ok" /\ data.tag = "U8" /\ Len(data.v) % 4 = 0) =>
           /\ Len(tile_ids) = Len(data.v) \div 4
           /\ \A i \in 1..Len(tile_ids) :
                  IsLittleEndianOf(tile_ids[i], data.v[4 * i - 3], data.v[4 * i - 2],
                                   data.v[4 * i - 1], data.v[4 * i])
    /\ (DataFinished /\ DataConsistent) =>
           /\ data_res = "ok"
           /\ HasCharacters => data = DataU8(LeBytes(data_doc.tiles))
           /\ tile_ids = data_doc.tiles

\* The document is csv text, bare, read as csv to the end.
CsvRead ==
    /\ data_res = "ok" /\ data_doc.kind = "csv" /\ ~data_doc.wrapped
    /\ data_doc.attrs.encoding = "csv"

\* The tokens of a sequence that are not blank, in order.
NonBlank(tk) == SelectSeq(tk, LAMBDA t : t.kind # "blank")

\* The ids read are one per non-blank token, in order, each the value of its
\* token when the kind is among the valued kinds, and 0 otherwise.
CsvYields(tk, valued) ==
    /\ data.tag = "U32"
    /\ Len(data.v) = Len(NonBlank(tk))
    /\ \A i \in 1..Len(data.v) :
           data.v[i] = IF NonBlank(tk)[i].kind \in valued
                       THEN U32(0, NonBlank(tk)[i].val)
                       ELSE U32(0, 0)
    /\ tile_ids = data.v

\* The token sequences without a token that ends a line.
PlainTokenSeqs ==
    {tk \in CsvTokenSeqs : \A i \in 1..Len(tk) : tk[i].kind \notin {"crlf", "cr"}}

\* C11: csv decoding yields, in document order, one u32 per non-blank token:
\* blank tokens give no entry, and a token that is no number gives 0 instead
\* of failing the parse.
C11_CsvTokens ==
    CsvRead =>
        \A tk \in PlainTokenSeqs :
            data_doc.csv = CsvJoin(tk) => CsvYields(tk, {"number"})

\* "1,,x": the blank token gives no entry, the word gives 0.
C11_Witness ==
    /\ CsvRead
    /\ data_doc.csv = <<49, 44, 44, 120>>
    /\ tile_ids = <<U32(0, 1), U32(0, 0)>>

\* C12: a numeric token followed by a CR LF line ending decodes to the
\* token's numeric value.
C12_LineEndingKeepsValue ==
    CsvRead =>
        \A tk \in CsvTokenSeqs :
            data_doc.csv = CsvJoin(tk) => CsvYields(tk, {"number", "crlf", "cr"})

\* What the code does: the CR is removed and the LF stays in the token, which
\* then is no number and gives 0; only a lone CR leaves the value.
C12_LineFeedGivesZero ==
    CsvRead =>
        \A tk \in CsvTokenSeqs :
            data_doc.csv = CsvJoin(tk) => CsvYields(tk, {"number", "cr"})

\* "1,4\r\n" has been read as [1, 0].
C12_Witness ==
    /\ CsvRead
    /\ data_doc.csv = <<49, 44, 52, 13, 10>>
    /\ tile_ids = <<U32(0, 1), U32(0, 0)>>

\* The encoding attribute is absent or names neither csv nor base64.
NoEncoding == data_doc.attrs.encoding \notin {"csv", "base64"}

\* C13: a data element whose encoding is absent or other than csv and base64
\* fails the parse, whatever its content, empty and white space included.
C13_NoEncodingFails == (DataFinished /\ NoEncoding) => data_res = "err"

\* What the code does: it fails at the first text that is not white space,
\* and without such text it returns no tile ids.
C13_NoEncodingFailsOnText ==
    (DataFinished /\ NoEncoding) =>
        IF HasCharacters THEN data_res = "err"
        ELSE data_res = "ok" /\ tile_ids = <<>>

\* A data element without encoding that holds one child element and no text
\* has been read to its end.
C13_Witness ==
    /\ data_res = "ok" /\ data_doc.attrs.encoding = ""
    /\ data_doc.lead = 1 /\ ~data_doc.chars
    /\ tile_ids = <<>>

C9_Witness ==
    /\ data_res = "ok" /\ DataConsistent
    /\ data_doc.container = "zlib" /\ data_doc.wrapped
    /\ data_doc.tiles = <<U32(1, 513), U32(65535, 65535)>>
    /\ data.tag = "U8" /\ Len(data.v) = 8
    /\ tile_ids = <<U32(1, 513), U32(65535, 65535)>>

\* C10: for base64 data, compression="zlib" selects zlib inflation and
\* compression="gzip" selects gzip inflation of the decoded bytes; only without
\* a compression attribute are the decoded bytes used as they are.
C10_CompressionSelectsInflation ==
    (DataFinished /\ data_doc.kind = "base64" /\ HasCharacters
       /\ data_doc.attrs.encoding = "base64") =>
        LET decoded == Contain(data_doc.container, LeBytes(data_doc.tiles))
            want == CASE data_doc.attrs.compression = "zlib" -> zlib_inflate(decoded)
                      [] data_doc.attrs.compression = "gzip" -> gzip_inflate(decoded)
                      [] data_doc.attrs.compression = "" -> Ok(decoded)
                      [] OTHER -> Fail("any")
        IN  /\ (data_doc.attrs.compression \in {"zlib", "gzip"} /\ want.ok) =>
                (data_res = "ok" /\ data = DataU8(want.val))
            /\ (data_doc.attrs.compression \in {"zlib", "gzip"} /\ ~want.ok) =>
                data_res = "err"
            /\ (data_res = "ok" /\ data = DataU8(decoded) /\ want.ok
                  /\ want.val # decoded) => data_doc.attrs.compression = ""

\* The zlib half of C10, which the code does implement.
C10_ZlibSelectsInflation ==
    (DataFinished /\ data_doc.kind = "base64" /\ HasCharacters
       /\ data_doc.attrs.encoding = "base64"
       /\ data_doc.attrs.compression = "zlib") =>
        LET want == zlib_inflate(Contain(data_doc.container, LeBytes(data_doc.tiles)))
        IN  IF want.ok THEN data_res = "ok" /\ data = DataU8(want.val)
            ELSE data_res = "err"

\* A gzip stream announced as compression="gzip" has been read to the end.
C10_GzipRead ==
    /\ data_res = "ok" /\ data_doc.kind = "base64" /\ data_doc.chars
    /\ data_doc.attrs.encoding = "base64"
    /\ data_doc.attrs.compression = "gzip" /\ data_doc.container = "gzip"
    /\ data_doc.tiles = <<U32(0, 1)>>

-----------------------------------------------------------------------------
(* Attribute values: str::parse for i32 and f32, parse_color *)

RECURSIVE GCD(_, _)
GCD(a, b) == IF b = 0 THEN a ELSE GCD(b, a % b)

\* The f32 value n / d (d > 0), in lowest terms.
F32(n, d) == <<n \div GCD(Abs(n), d), d \div GCD(Abs(n), d)>>

FOne == F32(1, 1)

FZero == F32(0, 1)

\* f32 `*`
FMul(a, b) == F32(a[1] * b[1], a[2] * b[2])

RECURSIVE DigitsValue(_, _)
DigitsValue(t, acc) ==
    IF t = <<>> THEN acc ELSE DigitsValue(Tail(t), acc * 10 + (Head(t) - 48))

RECURSIVE Pow10(_)
Pow10(k) == IF k = 0 THEN 1 ELSE 10 * Pow10(k - 1)

AllDigits(t) == \A i \in 1..Len(t) : IsDigit(t[i])

\* The texts of the model have at most this many digits, so no value leaves
\* the range of i32.
MaxDigits == 4

\* str::parse::<i32>: an optional sign and decimal digits.
Sign(t) == IF t # <<>> /\ Head(t) = 45 THEN -1 ELSE 1

SkipSign(t) == IF t # <<>> /\ Head(t) \in {43, 45} THEN Tail(t) ELSE t

ParseI32(t) ==
    IF \/ SkipSign(t) = <<>>
       \/ ~AllDigits(SkipSign(t))
       \/ Len(SkipSign(t)) > MaxDigits
    THEN Fail("err")
    ELSE Ok(Sign(t) * DigitsValue(SkipSign(t), 0))

\* str::parse::<f32> on plain decimal text: sign, digits, '.', digits.
Dots(body) == {i \in 1..Len(body) : body[i] = 46}

\* The number of digits after the '.' of a text with at most one '.'.
FracLen(body) ==
    IF Dots(body) = {} THEN 0 ELSE Len(body) - (CHOOSE i \in Dots(body) : TRUE)

\* The unsigned part of an f32 text: digits around at most one '.'.
ParseDecimal(sign, body) ==
    IF \/ Cardinality(Dots(body)) > 1
       \/ Remove(body, 46) = <<>>
       \/ ~AllDigits(Remove(body, 46))
       \/ Len(Remove(body, 46)) > MaxDigits
    THEN Fail("err")
    ELSE Ok(F32(sign * DigitsValue(Remove(body, 46), 0), Pow10(FracLen(body))))

ParseF32(t) == ParseDecimal(Sign(t), SkipSign(t))

\* char::to_ascii_lowercase
to_ascii_lowercase(c) == IF c \in 65..90 THEN c + 32 ELSE c

\* The closure `nibble` of parse_color.
nibble(c) ==
    CASE c \in 48..57 -> c - 48
      [] c \in 97..102 -> c - 97 + 10
      [] OTHER -> 0

\* parse_color: [u8; 4], all 255 before the digits are written in.
\* `lowercase`: the text without '#', in lower case.
lowercase(text) ==
    [i \in 1..Len(Remove(text, 35)) |-> to_ascii_lowercase(Remove(text, 35)[i])]

\* The i-th pair of digits as a byte.
color_byte(lc, i) == nibble(lc[2 * i - 1]) * 16 + nibble(lc[2 * i])

\* The bytes in the order red, green, blue, alpha.
color_bytes_rgba(lc) ==
    CASE Len(lc) = 6 ->
           Ok(<<color_byte(lc, 1), color_byte(lc, 2), color_byte(lc, 3), 255>>)
      [] Len(lc) = 8 ->
           Ok(<<color_byte(lc, 2), color_byte(lc, 3),
                color_byte(lc, 4), color_byte(lc, 1)>>)
      [] OTHER -> Fail("err")

\* The match on lowercase.len(): six digits leave result[0] at 255.
color_bytes(lc) ==
    CASE Len(lc) = 6 ->
           Ok(<<255, color_byte(lc, 1), color_byte(lc, 2), color_byte(lc, 3)>>)
      [] Len(lc) = 8 ->
           Ok(<<color_byte(lc, 1), color_byte(lc, 2),
                color_byte(lc, 3), color_byte(lc, 4)>>)
      [] OTHER -> Fail("err")

parse_color(text) == color_bytes(lowercase(text))

\* parse_color_vec4: Vec4(r, g, b, a) * (1.0 / 255.0)
parse_color_vec4(text) ==
    AndThen(parse_color(text),
            LAMBDA c : Ok(<<F32(c[2], 255), F32(c[3], 255),
                            F32(c[4], 255), F32(c[1], 255)>>))

\* Vec4 `*`, component-wise
Vec4Mul(a, b) == [i \in 1..4 |-> FMul(a[i], b[i])]

\* str::parse::<u32> for the ids of the model, which stay below 2^31.
ParseU32Int(t) == AndThen(ParseU32(t), LAMBDA v : Ok(v[1] * Two16 + v[2]))

\* The decimal text of a natural number, as a writer of documents prints it.
RECURSIVE DecText(_)
DecText(n) == IF n < 10 THEN <<48 + n>> ELSE Append(DecText(n \div 10), 48 + (n % 10))

-----------------------------------------------------------------------------
(* Tilesets: Tileset::parse, the tile elements of parse_tsx, and the lookups *)
(* of map.rs.  A tileset element is [attrs, tile_ids]: its attributes in      *)
(* order, as <<name, text>>, and the ids of its tile elements in order.       *)

\* The label of an embedded tileset, format!("embedded#{}", name).
EmbeddedLabel(name) == <<"embedded#", name>>

\* TmxLoadContext::unique_name: a stable label for the referenced file.
UniqueName(path) == <<"file", path>>

\* The "tile" arm of parse_tsx: put the tile at index id (0-based), padding the
\* vector with None; a second tile element for an id joins the first.
tsx_add_tile(tiles, id, tile) ==
    IF id < Len(tiles)
    THEN IF tiles[id + 1] = None THEN [tiles EXCEPT ![id + 1] = Some(tile)]
         ELSE tiles
    ELSE tiles \o [i \in 1..(id - Len(tiles)) |-> None] \o <<Some(tile)>>

\* The tiles of a tileset; a tile remembers the tileset element it was read
\* from (origin, the element's position in the map) and its id.
RECURSIVE tsx_tiles(_, _, _)
tsx_tiles(ids, origin, tiles) ==
    IF ids = <<>> THEN tiles
    ELSE tsx_tiles(Tail(ids), origin,
                   tsx_add_tile(tiles, Head(ids), [origin |-> origin, id |-> Head(ids)]))

\* One arm of the attribute loop of Tileset::parse.
tileset_attribute(ts, a) ==
    CASE a[1] = "firstgid" ->
           AndThen(ParseU32Int(a[2]), LAMBDA v : Ok([ts EXCEPT !.first_gid = v]))
      [] a[1] = "name" -> Ok([ts EXCEPT !.source = EmbeddedLabel(a[2])])
      [] a[1] = "source" -> Ok([ts EXCEPT !.source = UniqueName(a[2])])
      [] OTHER -> Ok(ts)

\* The attribute loop of Tileset::parse.
RECURSIVE tileset_attributes(_, _)
tileset_attributes(attrs, ts) ==
    IF attrs = <<>> THEN Ok(ts)
    ELSE AndThen(tileset_attribute(ts, Head(attrs)),
                 LAMBDA next : tileset_attributes(Tail(attrs), next))

\* Tileset::parse for the element d, the origin-th tileset element of the map.
Tileset_parse(d, origin) ==
    AndThen(tileset_attributes(d.attrs,
                [first_gid |-> 0, source |-> EmbeddedLabel(""), tiles |-> <<>>]),
            LAMBDA ts : Ok([ts EXCEPT !.tiles = tsx_tiles(d.tile_ids, origin, <<>>)]))

\* The order in which a scan visits n tilesets front to back.
iter_forward(n) == [i \in 1..n |-> i]

\* self.tilesets.iter().rev(): back to front.
iter_rev(n) == [i \in 1..n |-> n + 1 - i]

\* The first position of the scan whose tileset has first_gid <= gid, or 0.
RECURSIVE first_owner(_, _, _)
first_owner(order, ts, gid) ==
    IF order = <<>> THEN 0
    ELSE IF gid >= ts[Head(order)].first_gid THEN Head(order)
    ELSE first_owner(Tail(order), ts, gid)

\* Map::get_tileset; the Arc returned is named by its position in tilesets.
get_tileset(ts, gid) ==
    IF first_owner(iter_rev(Len(ts)), ts, gid) = 0 THEN None
    ELSE Some(first_owner(iter_rev(Len(ts)), ts, gid))

\* Map::get_tile
\* tileset.tiles.get(id as usize).and_then(Option::as_ref)
tiles_get(tileset, id) ==
    IF id < Len(tileset.tiles) /\ tileset.tiles[id + 1] # None
    THEN Some(tileset.tiles[id + 1][1])
    ELSE None

get_tile(ts, gid) ==
    IF first_owner(iter_rev(Len(ts)), ts, gid) = 0 THEN None
    ELSE tiles_get(ts[first_owner(iter_rev(Len(ts)), ts, gid)],
                   gid - ts[first_owner(iter_rev(Len(ts)), ts, gid)].first_gid)

-----------------------------------------------------------------------------
(* Objects: Object::parse, Object::parse_template, parse_properties.         *)
(* An object element is [attrs, children, file]: its attributes in order as  *)
(* <<name, text>>, its child elements, and what load_file yields for its     *)
(* template attribute.  Names, keys and paths are strings; texts that the    *)
(* code parses or compares are sequences of ASCII codes.                     *)

\* "true"
TrueText == <<116, 114, 117, 101>>

\* u32 `-` and `+`.  A u32 is kept as the representative nearest zero of its
\* class modulo 2^32, so 2^32 - k is -k; a build with overflow checks panics
\* where the value wraps.
U32Sub(a, b, checks) ==
    IF a < b /\ checks THEN Fail("panic") ELSE Ok(a - b)

U32Add(a, b, checks) ==
    IF (a < 0 \/ b < 0) /\ (a + b >= 0 \/ (a < 0 /\ b < 0)) /\ checks
    THEN Fail("panic")
    ELSE Ok(a + b)

\* HashMap as a set of <<key, value>> with one value per key.
properties_insert_keep(props, k, v) ==
    IF \E e \in props : e[1] = k THEN props ELSE props \cup {<<k, v>>}

\* HashMap::insert
properties_insert(props, k, v) == {e \in props : e[1] # k} \cup {<<k, v>>}

HasKey(props, k) == \E e \in props : e[1] = k

\* HashMap::get for a key that is present
Get(props, k) == (CHOOSE e \in props : e[1] = k)[2]

Property(ty, v) == [ty |-> ty, v |-> v]

\* parse_property; a property element is [name, type, value] with the type
\* "" when the attribute is absent.
parse_property(pd) ==
    CASE pd.type \in {"", "string"} -> Ok(<<pd.name, Property("String", pd.value)>>)
      [] pd.type = "int" ->
           MapOk(ParseI32(pd.value), LAMBDA v : <<pd.name, Property("Int", v)>>)
      [] pd.type = "float" ->
           MapOk(ParseF32(pd.value), LAMBDA v : <<pd.name, Property("Float", v)>>)
      [] pd.type = "bool" -> Ok(<<pd.name, Property("Bool", pd.value = TrueText)>>)
      [] pd.type = "color" ->
           MapOk(parse_color(pd.value), LAMBDA v : <<pd.name, Property("Color", v)>>)
      [] pd.type = "file" -> Ok(<<pd.name, Property("File", pd.value)>>)
      [] OTHER -> Fail("err")

\* parse_properties: the properties of the element, later ones over earlier.
RECURSIVE parse_properties(_, _)
parse_properties(pds, result) ==
    IF pds = <<>> THEN Ok(result)
    ELSE AndThen(parse_property(Head(pds)),
                 LAMBDA kv : parse_properties(Tail(pds),
                                              properties_insert(result, kv[1], kv[2])))

\* `for (k, v) in ..into_iter() { result.properties.insert(k, v) }`
RECURSIVE InsertAll(_, _)
InsertAll(props, new) ==
    IF new = {} THEN props
    ELSE InsertAll(properties_insert(props, (CHOOSE x \in new : TRUE)[1],
                                     (CHOOSE x \in new : TRUE)[2]),
                   new \ {CHOOSE x \in new : TRUE})

\* The point of the texts `i` that the split at ',' yields.
point_of(i) ==
    IF Len(i) >= 2 /\ ParseF32(i[1]).ok /\ ParseF32(i[2]).ok
    THEN Ok(<<ParseF32(i[1]).val, ParseF32(i[2]).val>>)
    ELSE Fail("err")

\* One point "x,y" of a points attribute.
parse_point(pt) == point_of(Split(pt, 44))

\* The points of the texts that the split at ' ' yields.
points_of(pts) ==
    IF \A i \in 1..Len(pts) : parse_point(pts[i]).ok
    THEN Ok([i \in 1..Len(pts) |-> parse_point(pts[i]).val])
    ELSE Fail("err")

\* The points of a polyline or polygon element (points is the attribute's
\* text, or None without the attribute).
parse_points(points) ==
    IF points = None THEN Ok(<<>>) ELSE points_of(Split(points[1], 32))

\* The Object that Object::parse starts from.
DefaultObject ==
    [id |-> 0, properties |-> {}, tile |-> None, shape |-> None,
     name |-> "", ty |-> "", x |-> FZero, y |-> FZero,
     width |-> FZero, height |-> FZero, rotation |-> FZero, visible |-> TRUE]

\* One arm of the "apply properties" loop of Object::parse.
object_attribute(o, a) ==
    CASE a[1] = "id" -> MapOk(ParseU32Int(a[2]), LAMBDA v : [o EXCEPT !.id = v])
      [] a[1] = "gid" -> MapOk(ParseU32Int(a[2]), LAMBDA v : [o EXCEPT !.tile = Some(v)])
      [] a[1] = "name" -> Ok([o EXCEPT !.name = a[2]])
      [] a[1] = "type" -> Ok([o EXCEPT !.ty = a[2]])
      [] a[1] = "x" -> MapOk(ParseF32(a[2]), LAMBDA v : [o EXCEPT !.x = v])
      [] a[1] = "y" -> MapOk(ParseF32(a[2]), LAMBDA v : [o EXCEPT !.y = v])
      [] a[1] = "width" -> MapOk(ParseF32(a[2]), LAMBDA v : [o EXCEPT !.width = v])
      [] a[1] = "height" -> MapOk(ParseF32(a[2]), LAMBDA v : [o EXCEPT !.height = v])
      [] a[1] = "rotation" -> MapOk(ParseF32(a[2]), LAMBDA v : [o EXCEPT !.rotation = v])
      [] a[1] = "visible" -> Ok([o EXCEPT !.visible = (a[2] = TrueText)])
      [] OTHER -> Ok(o)

RECURSIVE object_attributes(_, _)
object_attributes(attrs, o) ==
    IF attrs = <<>> THEN Ok(o)
    ELSE AndThen(object_attribute(o, Head(attrs)),
                 LAMBDA next : object_attributes(Tail(attrs), next))

\* One child element of an object element.
object_child(o, c) ==
    CASE c.el = "properties" ->
           MapOk(parse_properties(c.props, {}),
                 LAMBDA new : [o EXCEPT !.properties = InsertAll(o.properties, new)])
      [] c.el \in {"polyline", "polygon"} ->
           MapOk(parse_points(c.points),
                 LAMBDA pts : [o EXCEPT !.shape =
                                  Some([points |-> pts, closed |-> c.el = "polygon"])])
      [] OTHER -> Ok(o)

RECURSIVE object_children(_, _)
object_children(children, o) ==
    IF children = <<>> THEN Ok(o)
    ELSE AndThen(object_child(o, Head(children)),
                 LAMBDA next : object_children(Tail(children), next))

\* The marker property of an object that took its tile from a template.
IncludeTileset == "__include_tileset__"

\* The empty source string, as a label.
NoLabel == <<"", "">>

\* One attribute of the tileset element of a template.
template_tileset_attribute(ts, a) ==
    CASE a[1] = "firstgid" -> MapOk(ParseU32Int(a[2]), LAMBDA v : <<v, ts[2]>>)
      [] a[1] = "source" -> Ok(<<ts[1], UniqueName(a[2])>>)
      [] OTHER -> Ok(ts)

\* The "tileset" arm of parse_template: (first_gid, source) of the element.
RECURSIVE template_tileset(_, _)
template_tileset(attrs, ts) ==
    IF attrs = <<>> THEN Ok(ts)
    ELSE AndThen(template_tileset_attribute(ts, Head(attrs)),
                 LAMBDA next : template_tileset(Tail(attrs), next))

HasAttribute(attrs, name) == \E i \in 1..Len(attrs) : attrs[i][1] = name

RECURSIVE Object_parse(_, _)

\* `tileset` at the end of the loop of parse_template.
template_tileset_of(f) ==
    IF f.tileset = None THEN Fail("err")
    ELSE template_tileset(f.tileset[1], <<0, NoLabel>>)

RECURSIVE template_objects(_, _, _)

\* Object::parse returned r inside parse_template.  A failure leaves the
\* reader inside the object element, so that the next EndElement ends the loop
\* with `object` an Err; a panic unwinds.
template_parsed(r, objs, checks) ==
    IF r.ok THEN template_objects(objs, checks, r) ELSE r

\* The loop of parse_template over the object elements, `parsed` being the
\* value assigned to `object` so far.
template_objects(objs, checks, parsed) ==
    IF objs = <<>> THEN parsed
    ELSE template_parsed(Object_parse(Head(objs), checks), Tail(objs), checks)

\* `object` at the end of the loop of parse_template.
template_last_object(f, checks) == template_objects(f.objects, checks, Fail("err"))

\* The result of parse_template from its locals `tileset` and `object`.
template_result(f, tileset, parsed, checks) ==
    IF f.tileset # None /\ ~tileset.ok THEN tileset
    ELSE IF ~parsed.ok THEN parsed
    ELSE IF parsed.val.tile = None THEN parsed
    ELSE IF ~tileset.ok THEN tileset
    ELSE MapOk(U32Sub(parsed.val.tile[1], tileset.val[1], checks),
               LAMBDA t : [parsed.val EXCEPT
                             !.tile = Some(t),
                             !.properties =
                                 properties_insert(@, IncludeTileset,
                                                   Property("File", tileset.val[2]))])

\* Object::parse_template on the template element f = [root, tileset, objects]:
\* its tileset element (None or Some(attrs)) and its object elements.
parse_template(f, checks) ==
    template_result(f, template_tileset_of(f), template_last_object(f, checks), checks)

\* The object a template attribute provides: load_file, the search for the
\* template element, parse_template. In a file without a template element
\* the search does not end ("hang", see SpecPoll).
template_object(d, checks) ==
    IF d.file = None THEN Fail("err")
    ELSE IF d.file[1].root # "template" THEN Fail("hang")
    ELSE parse_template(d.file[1], checks)

\* The value of `result` when the attributes are applied.
object_start(d, checks) ==
    IF HasAttribute(d.attrs, "template") THEN template_object(d, checks)
    ELSE Ok(DefaultObject)

\* Object::parse
Object_parse(d, checks) ==
    AndThen(object_start(d, checks),
            LAMBDA start :
                AndThen(object_attributes(d.attrs, start),
                        LAMBDA applied : object_children(d.children, applied)))

-----------------------------------------------------------------------------
(* The object elements read by SpecObject, and Object::parse as one step *)

MaxInstAttrs == 1

MaxTplAttrs == 2

AttrNames ==
    <<"id", "gid", "name", "type", "x", "y", "width", "height", "rotation", "visible">>

\* The values written on instancing objects: id 7, gid 9, x 5, y 6, ...
InstValue(n) ==
    CASE n = "id" -> DecText(7)
      [] n = "gid" -> DecText(9)
      [] n = "name" -> "inst"
      [] n = "type" -> "door"
      [] n = "x" -> DecText(5)
      [] n = "y" -> DecText(6)
      [] n = "width" -> <<51, 46, 53>>
      [] n = "height" -> DecText(4)
      [] n = "rotation" -> DecText(90)
      [] n = "visible" -> TrueText

\* The values written on template objects: id 1, gid 3, x 1, y 2, ...
TplValue(n) ==
    CASE n = "id" -> DecText(1)
      [] n = "gid" -> DecText(3)
      [] n = "name" -> "tpl"
      [] n = "type" -> "chest"
      [] n = "x" -> DecText(1)
      [] n = "y" -> DecText(2)
      [] n = "width" -> DecText(8)
      [] n = "height" -> <<48, 46, 53>>
      [] n = "rotation" -> <<45, 52, 53>>
      [] n = "visible" -> <<102, 97, 108, 115, 101>>

\* The attributes named by a set of positions of AttrNames, in that order.
Picked(S) == SelectSeq(AttrNames, LAMBDA n : \E i \in S : AttrNames[i] = n)

AttrsOf(S, value(_)) ==
    [k \in 1..Len(Picked(S)) |-> <<Picked(S)[k], value(Picked(S)[k])>>]

AttrSets(max) == {S \in SUBSET (1..Len(AttrNames)) : Cardinality(S) <= max}

PropertyEl(name, type, value) == [name |-> name, type |-> type, value |-> value]

PropertiesEl(props) == [el |-> "properties", props |-> props, points |-> None]

ShapeEl(el, points) == [el |-> el, props |-> <<>>, points |-> points]

\* "bar", "baz", "k"
BarText == <<98, 97, 114>>

BazText == <<98, 97, 122>>

\* "0,0 4,0 4,2.5" and "1,1 2,2"
PolygonText == <<48, 44, 48, 32, 52, 44, 48, 32, 52, 44, 50, 46, 53>>

PolylineText == <<49, 44, 49, 32, 50, 44, 50>>

InstChildren ==
    {<<>>,
     <<PropertiesEl(<<PropertyEl("foo", "", BazText)>>)>>,
     <<PropertiesEl(<<PropertyEl("own", "int", DecText(1))>>),
       ShapeEl("polygon", Some(PolygonText))>>}

TplChildren ==
    {<<>>,
     <<PropertiesEl(<<PropertyEl("foo", "", BarText)>>)>>,
     <<PropertiesEl(<<PropertyEl("foo", "", BarText),
                      PropertyEl("keep", "bool", TrueText)>>),
       ShapeEl("polyline", Some(PolylineText))>>}

\* The tileset element of a template: none, or firstgid 2 of a.tsx.
TplTilesets == {None, Some(<<<<"firstgid", DecText(2)>>, <<"source", "a.tsx">>>>)}

ObjectEl(attrs, children, file) ==
    [attrs |-> attrs, children |-> children, file |-> file]

TplObjects ==
    {ObjectEl(AttrsOf(S, TplValue), c, None) : S \in AttrSets(MaxTplAttrs), c \in TplChildren}

TemplateFile(root, tileset, objects) ==
    [root |-> root, tileset |-> tileset, objects |-> objects]

\* What load_file yields: nothing, a file without a template element, a
\* template without an object, or a template with its object.
TemplateFiles ==
    {None, Some(TemplateFile("map", None, <<>>))}
    \cup {Some(TemplateFile("template", ts, <<>>)) : ts \in TplTilesets}
    \cup {Some(TemplateFile("template", ts, <<o>>)) : ts \in TplTilesets, o \in TplObjects}

ObjectDocs ==
    {ObjectEl(AttrsOf(S, InstValue), c, None) : S \in AttrSets(MaxInstAttrs), c \in InstChildren}
    \cup {ObjectEl(Append(AttrsOf(S, InstValue), <<"template", "t.tx">>), c, f) :
              S \in AttrSets(MaxInstAttrs), c \in InstChildren, f \in TemplateFiles}

ObjInit ==
    /\ GeoIdle /\ DataIdle /\ MapIdle /\ CallIdle /\ IterIdle /\ TexIdle
    /\ obj_doc \in ObjectDocs
    /\ object = Fail("pending")

\* Object::parse of the element, in a build with or without overflow checks.
ParseObject ==
    /\ object = Fail("pending")
    /\ \E checks \in BOOLEAN : object' = Object_parse(obj_doc, checks)
    /\ UNCHANGED <<obj_doc, notObj>>

ObjNext == ParseObject

SpecObject == ObjInit /\ [][ObjNext]_vars

-----------------------------------------------------------------------------
(* Claims about objects *)

\* The field of Object that an attribute sets.
FieldOf(n) == CASE n = "type" -> "ty" [] n = "gid" -> "tile" [] OTHER -> n

\* The value an attribute of the instancing object gives its field.
InstField(n) ==
    CASE n \in {"id"} -> ParseU32Int(InstValue(n)).val
      [] n = "gid" -> Some(ParseU32Int(InstValue(n)).val)
      [] n \in {"name", "type"} -> InstValue(n)
      [] n = "visible" -> TRUE
      [] OTHER -> ParseF32(InstValue(n)).val

\* The properties and the shape the instancing object's own children give.
InstOwn == object_children(obj_doc.children, DefaultObject).val

\* C3: an object naming a template takes the template-provided object as its
\* default: every attribute present on the instance overrides its field, every
\* other field keeps the template's value, the instance's properties are
\* merged over the template's (instance wins, template-only ones are kept).
C3_TemplateDefaults ==
    (object.ok /\ HasAttribute(obj_doc.attrs, "template")) =>
        LET tpl == template_object(obj_doc, FALSE)
        IN  /\ tpl.ok
            /\ \A i \in 1..Len(AttrNames) :
                   object.val[FieldOf(AttrNames[i])] =
                       IF HasAttribute(obj_doc.attrs, AttrNames[i])
                       THEN InstField(AttrNames[i])
                       ELSE tpl.val[FieldOf(AttrNames[i])]
            /\ \A e \in InstOwn.properties : e \in object.val.properties
            /\ \A e \in tpl.val.properties :
                   HasKey(InstOwn.properties, e[1]) \/ e \in object.val.properties
            /\ \A e \in object.val.properties :
                   e \in InstOwn.properties \/ e \in tpl.val.properties
            /\ object.val.shape =
                   IF InstOwn.shape # None THEN InstOwn.shape ELSE tpl.val.shape

\* The example of the specification: template x=1, y=2, foo=bar; instance x=5,
\* with a property foo=baz of its own.
C3_Witness ==
    /\ object.ok
    /\ obj_doc.attrs = <<<<"x", DecText(5)>>, <<"template", "t.tx">>>>
    /\ obj_doc.children = <<PropertiesEl(<<PropertyEl("foo", "", BazText)>>)>>
    /\ obj_doc.file # None
    /\ obj_doc.file[1].root = "template"
    /\ obj_doc.file[1].objects # <<>>
    /\ obj_doc.file[1].objects[1].attrs = <<<<"x", DecText(1)>>, <<"y", DecText(2)>>>>
    /\ Len(obj_doc.file[1].objects[1].children) = 2
    /\ object.val.x = F32(5, 1) /\ object.val.y = F32(2, 1)
    /\ object.val.properties =
           {<<"foo", Property("String", BazText)>>, <<"keep", Property("Bool", TRUE)>>}
    /\ object.val.shape # None /\ ~object.val.shape[1].closed

-----------------------------------------------------------------------------
(* Layers: layer.rs, and Layer::parse_tiles / parse_objects / parse_image /  *)
(* parse_group / process of parse.rs.  A layer element is [el, attrs,        *)
(* children, objects, image].                                                *)

\* offset, parallax, color and visible as every layer parser initialises them.
LayerLocals ==
    [offset |-> <<0, 0>>, parallax |-> <<FOne, FOne>>,
     color |-> <<FOne, FOne, FOne, FOne>>, visible |-> TRUE]

\* One arm of the attribute loop of a layer parser; parse_group (leaf = FALSE)
\* has no arm for "visible".
layer_attribute(st, a, leaf) ==
    CASE a[1] = "offsetx" ->
           MapOk(ParseI32(a[2]), LAMBDA v : [st EXCEPT !.offset[1] = v])
      [] a[1] = "offsety" ->
           MapOk(ParseI32(a[2]), LAMBDA v : [st EXCEPT !.offset[2] = v])
      [] a[1] = "parallaxx" ->
           MapOk(ParseF32(a[2]), LAMBDA v : [st EXCEPT !.parallax[1] = v])
      [] a[1] = "parallaxy" ->
           MapOk(ParseF32(a[2]), LAMBDA v : [st EXCEPT !.parallax[2] = v])
      [] a[1] = "opacity" ->
           MapOk(ParseF32(a[2]), LAMBDA v : [st EXCEPT !.color[4] = FMul(@, v)])
      [] a[1] = "tintcolor" ->
           MapOk(parse_color_vec4(a[2]), LAMBDA c : [st EXCEPT !.color = Vec4Mul(@, c)])
      [] a[1] = "visible" /\ leaf ->
           Ok([st EXCEPT !.visible = (a[2] = TrueText)])
      [] OTHER -> Ok(st)

RECURSIVE layer_attributes(_, _, _)
layer_attributes(attrs, st, leaf) ==
    IF attrs = <<>> THEN Ok(st)
    ELSE AndThen(layer_attribute(st, Head(attrs), leaf),
                 LAMBDA next : layer_attributes(Tail(attrs), next, leaf))

\* Layer::TileLayer, ::ObjectLayer and ::ImageLayer, told apart by kind.
LeafLayer(kind, st, objects) ==
    [kind |-> kind, offset |-> st.offset, parallax |-> st.parallax,
     color |-> st.color, visible |-> st.visible, objects |-> objects]

\* Layer::Group
GroupLayer(ls) == [kind |-> "Group", layers |-> ls]

\* add_offset without the Group arm.
add_offset_shallow(l, x, y) ==
    IF l.kind = "Group" THEN l
    ELSE [l EXCEPT !.offset = <<@[1] + x, @[2] + y>>]

RECURSIVE add_offset(_, _, _)
add_offset(l, x, y) ==
    IF l.kind = "Group"
    THEN GroupLayer([i \in 1..Len(l.layers) |-> add_offset(l.layers[i], x, y)])
    ELSE [l EXCEPT !.offset = <<@[1] + x, @[2] + y>>]

RECURSIVE mul_parallax(_, _, _)
mul_parallax(l, x, y) ==
    IF l.kind = "Group"
    THEN GroupLayer([i \in 1..Len(l.layers) |-> mul_parallax(l.layers[i], x, y)])
    ELSE [l EXCEPT !.parallax = <<FMul(@[1], x), FMul(@[2], y)>>]

RECURSIVE mul_color(_, _)
mul_color(l, o) ==
    IF l.kind = "Group"
    THEN GroupLayer([i \in 1..Len(l.layers) |-> mul_color(l.layers[i], o)])
    ELSE [l EXCEPT !.color = Vec4Mul(@, o)]

\* Layer::parse_tiles (the tile data is the subject of SpecData).
parse_tiles(d) ==
    MapOk(layer_attributes(d.attrs, LayerLocals, TRUE),
          LAMBDA st : LeafLayer("TileLayer", st, <<>>))

\* The locals of the free function parse_image (no data child is modelled).
ImageLocals == [source |-> None, width |-> None, height |-> None]

\* One arm of the attribute loop of parse_image.
image_attribute(st, a) ==
    CASE a[1] = "source" -> Ok([st EXCEPT !.source = Some(a[2])])
      [] a[1] = "width" -> MapOk(ParseU32Int(a[2]), LAMBDA v : [st EXCEPT !.width = Some(v)])
      [] a[1] = "height" -> MapOk(ParseU32Int(a[2]), LAMBDA v : [st EXCEPT !.height = Some(v)])
      [] OTHER -> Ok(st)

RECURSIVE image_attributes(_, _)
image_attributes(attrs, st) ==
    IF attrs = <<>> THEN Ok(st)
    ELSE AndThen(image_attribute(st, Head(attrs)),
                 LAMBDA next : image_attributes(Tail(attrs), next))

\* The texture after the loop of parse_image: im.file is what load_file and
\* Texture::from_bytes make of the source, None when either fails.  The
\* elements read carry no height, so that the image is not cut.
image_texture(im, st) ==
    IF st.source = None \/ im.file = None THEN Fail("err")
    ELSE Ok([label |-> st.source[1]])

\* parse_image (the free function) on the element im = [attrs, file], with
\* `consumed`: whether it read the element up to its end tag.  An attribute
\* that fails returns before the loop over the element's events.
parse_image(im) ==
    IF image_attributes(im.attrs, ImageLocals).ok
    THEN [res |-> image_texture(im, image_attributes(im.attrs, ImageLocals).val),
          consumed |-> TRUE]
    ELSE [res |-> image_attributes(im.attrs, ImageLocals), consumed |-> FALSE]

\* The loop of Layer::parse_image as if it ended at the first image that
\* fails.
RECURSIVE image_loop_fail_fast(_, _)
image_loop_fail_fast(images, image) ==
    IF images = <<>> THEN image
    ELSE IF ~parse_image(Head(images)).res.ok THEN parse_image(Head(images)).res
    ELSE image_loop_fail_fast(Tail(images), parse_image(Head(images)).res)

\* The loop of Layer::parse_image over the image elements: `image` is
\* assigned every result, Err included, and the loop goes on.  After an image
\* that was left unread the next EndElement, the image's own, ends the loop.
RECURSIVE image_loop(_, _)
image_loop(images, image) ==
    IF images = <<>> THEN image
    ELSE IF ~parse_image(Head(images)).consumed THEN parse_image(Head(images)).res
    ELSE image_loop(Tail(images), parse_image(Head(images)).res)

\* Layer::parse_image with `image` starting as an Ok.
parse_image_layer_lenient(d) ==
    AndThen(layer_attributes(d.attrs, LayerLocals, TRUE),
            LAMBDA st : MapOk(image_loop(d.images, Ok([label |-> ""])),
                              LAMBDA im : LeafLayer("ImageLayer", st, <<>>)))

\* Layer::parse_image: `image` starts as Err("no image found").
parse_image_layer(d) ==
    AndThen(layer_attributes(d.attrs, LayerLocals, TRUE),
            LAMBDA st : MapOk(image_loop(d.images, Fail("err")),
                              LAMBDA im : LeafLayer("ImageLayer", st, <<>>)))

\* The objects of parse_objects: the first failure ends the parse.
RECURSIVE parse_object_elements(_, _, _)
parse_object_elements(ods, checks, acc) ==
    IF ods = <<>> THEN Ok(acc)
    ELSE AndThen(Object_parse(Head(ods), checks),
                 LAMBDA o : parse_object_elements(Tail(ods), checks, Append(acc, o)))

\* Layer::parse_objects
parse_objects(d, checks) ==
    AndThen(layer_attributes(d.attrs, LayerLocals, TRUE),
            LAMBDA st :
                MapOk(parse_object_elements(d.objects, checks, <<>>),
                      LAMBDA objs : LeafLayer("ObjectLayer", st, objs)))

\* The inner loop of process as if it added nothing.
rebase_tile_keep(tile, ts, src, checks) == Ok(tile)

\* The inner loop of process: every tileset with the source adds its first_gid.
RECURSIVE rebase_tile(_, _, _, _)
rebase_tile(tile, ts, src, checks) ==
    IF ts = <<>> THEN Ok(tile)
    ELSE IF Head(ts).source = src /\ tile # None
    THEN AndThen(U32Add(Head(ts).first_gid, tile[1], checks),
                 LAMBDA t : rebase_tile(Some(t), Tail(ts), src, checks))
    ELSE rebase_tile(tile, Tail(ts), src, checks)

\* The body of process for one object; without a tileset of the source it
\* reaches todo!().
process_object(o, ts, checks) ==
    IF HasKey(o.properties, IncludeTileset)
       /\ Get(o.properties, IncludeTileset).ty = "File"
    THEN AndThen(rebase_tile(o.tile, ts, Get(o.properties, IncludeTileset).v, checks),
                 LAMBDA tile :
                     IF \E i \in 1..Len(ts) :
                            ts[i].source = Get(o.properties, IncludeTileset).v
                     THEN Ok([o EXCEPT !.tile = tile])
                     ELSE Fail("panic"))
    ELSE Ok(o)

RECURSIVE process_objects(_, _, _, _)
process_objects(objs, ts, checks, acc) ==
    IF objs = <<>> THEN Ok(acc)
    ELSE AndThen(process_object(Head(objs), ts, checks),
                 LAMBDA o : process_objects(Tail(objs), ts, checks, Append(acc, o)))

\* process as if it left the objects as they are.
process_skip(l, ts, checks) == Ok(l)

\* Layer::process, up to the push onto map.layers.
process(l, ts, checks) ==
    MapOk(process_objects(l.objects, ts, checks, <<>>),
          LAMBDA objs : [l EXCEPT !.objects = objs])

\* The tail of parse_group: the group's transform goes into every layer.
close_group(frame) ==
    GroupLayer([i \in 1..Len(frame.layers) |->
        mul_color(mul_parallax(add_offset(frame.layers[i],
                                          frame.offset[1], frame.offset[2]),
                               frame.parallax[1], frame.parallax[2]),
                  frame.color)])

-----------------------------------------------------------------------------
(* Map::parse: the child loop, with parse_group's activations on a stack.    *)
(* docs[1] is the map element, docs[k + 1] the group element of stack[k];    *)
(* each holds the child elements read so far.                                *)

MaxTilesets == 3

MaxDepth == 2

MaxNodes == 3

MaxObjectLayers == 1

MaxFirstGid == 3

MaxTileElems == 1

MaxTileId == 1

Element(el, attrs) ==
    [el |-> el, attrs |-> attrs, children |-> <<>>, objects |-> <<>>,
     images |-> <<>>, tile_ids |-> <<>>]

\* The layer elements (groups included) of an element and below.
RECURSIVE DocNodes(_)
DocNodes(d) ==
    (IF d.el \in {"map", "tileset"} THEN 0 ELSE 1)
    + SeqSum([i \in 1..Len(d.children) |-> DocNodes(d.children[i])])

NodeCount == SeqSum([k \in 1..Len(docs) |-> DocNodes(docs[k])])

MapInit ==
    /\ GeoIdle /\ DataIdle /\ ObjIdle /\ CallIdle /\ IterIdle /\ TexIdle
    /\ tilesets = <<>> /\ layers = <<>> /\ stack = <<>>
    /\ docs = <<Element("map", <<>>)>>
    /\ map_res = "run"
    /\ overflow_checks \in BOOLEAN
    /\ lookup = NoLookup

\* The element d has been read by the innermost open element.
Read(d) == docs' = [docs EXCEPT ![Len(docs)].children = Append(@, d)]

\* `layers.push(..)` of parse_group, or `result.layers.push(..)` of Map::parse.
Push(l) ==
    IF stack = <<>>
    THEN layers' = Append(layers, l) /\ stack' = stack
    ELSE /\ stack' = [stack EXCEPT ![Len(stack)].layers = Append(@, l)]
         /\ layers' = layers

\* A parser returned r: push its layer, or leave Map::parse by `?` or a panic.
PushResult(r) ==
    IF r.ok THEN Push(r.val) /\ map_res' = map_res
    ELSE /\ map_res' = (IF r.why \in {"panic", "hang"} THEN r.why ELSE "err")
         /\ UNCHANGED <<layers, stack>>

\* `result.tilesets.push(Arc::new(..?))`
PushTileset(r) ==
    IF r.ok THEN tilesets' = Append(tilesets, r.val) /\ map_res' = map_res
    ELSE tilesets' = tilesets /\ map_res' = "err"

\* "tileset" in Map::parse.
MapTileset(d) ==
    /\ map_res = "run" /\ stack = <<>>
    /\ Len(tilesets) < MaxTilesets
    /\ PushTileset(Tileset_parse(d, Len(tilesets) + 1))
    /\ Read(d)
    /\ UNCHANGED <<layers, stack, overflow_checks, lookup, notMap>>

\* "layer" in Map::parse and in parse_group.
TileLayer(d) ==
    /\ map_res = "run" /\ NodeCount < MaxNodes
    /\ PushResult(parse_tiles(d))
    /\ Read(d)
    /\ UNCHANGED <<tilesets, overflow_checks, lookup, notMap>>

\* "imagelayer" in Map::parse and in parse_group.
ImageLayer(d) ==
    /\ map_res = "run" /\ NodeCount < MaxNodes
    /\ PushResult(parse_image_layer(d))
    /\ Read(d)
    /\ UNCHANGED <<tilesets, overflow_checks, lookup, notMap>>

\* "objectgroup": parse_objects, followed in Map::parse (not in parse_group)
\* by process.
ObjectGroup(d) ==
    /\ map_res = "run" /\ NodeCount < MaxNodes
    /\ PushResult(AndThen(parse_objects(d, overflow_checks),
                          LAMBDA l : IF stack = <<>>
                                     THEN process(l, tilesets, overflow_checks)
                                     ELSE Ok(l)))
    /\ Read(d)
    /\ UNCHANGED <<tilesets, overflow_checks, lookup, notMap>>

\* The attribute loop of parse_group ended with st: a new activation, or `?`.
EnterGroup(d, st) ==
    IF st.ok
    THEN /\ stack' = Append(stack, [offset |-> st.val.offset,
                                    parallax |-> st.val.parallax,
                                    color |-> st.val.color,
                                    layers |-> <<>>])
         /\ docs' = Append(docs, d)
         /\ map_res' = map_res
    ELSE /\ map_res' = "err"
         /\ Read(d)
         /\ stack' = stack

\* "group": parse_group is entered and reads its attributes.
GroupStart(d) ==
    /\ map_res = "run" /\ NodeCount < MaxNodes /\ Len(stack) < MaxDepth
    /\ EnterGroup(d, layer_attributes(d.attrs, LayerLocals, FALSE))
    /\ UNCHANGED <<tilesets, layers, overflow_checks, lookup, notMap>>

\* The caller of parse_group pushes the Group g; outer are its activations.
LeaveGroup(outer, g) ==
    IF outer = <<>>
    THEN layers' = Append(layers, g) /\ stack' = outer
    ELSE /\ stack' = [outer EXCEPT ![Len(outer)].layers = Append(@, g)]
         /\ layers' = layers

\* EndElement in parse_group: the transform is handed down and the Group is
\* pushed by the caller.
GroupEnd ==
    /\ map_res = "run" /\ stack # <<>>
    /\ LeaveGroup(SubSeq(stack, 1, Len(stack) - 1), close_group(stack[Len(stack)]))
    /\ docs' = [SubSeq(docs, 1, Len(docs) - 1) EXCEPT
                   ![Len(docs) - 1].children = Append(@, docs[Len(docs)])]
    /\ UNCHANGED <<tilesets, map_res, overflow_checks, lookup, notMap>>

\* EndElement in Map::parse: Ok(result).
MapEnd ==
    /\ map_res = "run" /\ stack = <<>>
    /\ map_res' = "ok"
    /\ UNCHANGED <<tilesets, layers, stack, docs, overflow_checks, lookup, notMap>>

\* Map::get_tile on the returned map.
GetTile(gid) ==
    /\ map_res = "ok"
    /\ lookup' = [fn |-> "get_tile", gid |-> gid, result |-> get_tile(tilesets, gid)]
    /\ UNCHANGED <<tilesets, layers, stack, docs, map_res, overflow_checks, notMap>>

\* Map::get_tileset on the returned map.
GetTileset(gid) ==
    /\ map_res = "ok"
    /\ lookup' = [fn |-> "get_tileset", gid |-> gid,
                  result |-> get_tileset(tilesets, gid)]
    /\ UNCHANGED <<tilesets, layers, stack, docs, map_res, overflow_checks, notMap>>

-----------------------------------------------------------------------------
(* SpecLookup: a map of tilesets only, then get_tile / get_tileset *)

TilesetEl(attrs, ids) == [Element("tileset", attrs) EXCEPT !.tile_ids = ids]

LookupTilesetDocs ==
    {TilesetEl(<<<<"firstgid", DecText(g)>>>>, ids) :
         g \in 0..MaxFirstGid, ids \in SeqsUpTo(0..MaxTileId, MaxTileElems)}

Gids == 0..(MaxFirstGid + MaxTileId + 1)

LookupNext ==
    \/ \E d \in LookupTilesetDocs : MapTileset(d)
    \/ MapEnd
    \/ \E gid \in Gids : GetTile(gid)
    \/ \E gid \in Gids : GetTileset(gid)

SpecLookup == MapInit /\ [][LookupNext]_vars

Ascending(ts) == \A i \in 1..(Len(ts) - 1) : ts[i].first_gid <= ts[i + 1].first_gid

\* gid lies in [ts[i].first_gid, ts[i + 1].first_gid), unbounded for the last.
InRangeOf(ts, i, gid) ==
    /\ ts[i].first_gid <= gid
    /\ i = Len(ts) \/ gid < ts[i + 1].first_gid

\* The i-th tileset element of the map has a tile element with this id.
HasTileElement(i, id) ==
    \E k \in 1..Len(docs[1].children[i].tile_ids) : docs[1].children[i].tile_ids[k] = id

\* C2: with the tilesets in ascending first_gid order, a gid in
\* [ts.first_gid, next_ts.first_gid) resolves inside ts only: get_tileset gives
\* ts, get_tile gives ts.tiles[gid - ts.first_gid] when that slot is filled and
\* None for a gap or past the end; never a tile of another tileset.
C2_LookupInsideOwner ==
    (lookup.fn # "" /\ Ascending(tilesets)) =>
        \A i \in 1..Len(tilesets) :
            InRangeOf(tilesets, i, lookup.gid) =>
                IF lookup.fn = "get_tileset" THEN lookup.result = Some(i)
                ELSE IF HasTileElement(i, lookup.gid - tilesets[i].first_gid)
                THEN lookup.result =
                         Some([origin |-> i, id |-> lookup.gid - tilesets[i].first_gid])
                ELSE lookup.result = None

C2_Witness ==
    /\ Len(tilesets) = 3
    /\ tilesets[1].first_gid = 0 /\ tilesets[2].first_gid = 1
    /\ tilesets[3].first_gid = 3
    /\ lookup.fn = "get_tile" /\ lookup.gid = 2
    /\ lookup.result = Some([origin |-> 2, id |-> 1])
    /\ tilesets[2].tiles = <<None, Some([origin |-> 2, id |-> 1])>>
    /\ tilesets[1].tiles # <<>> /\ tilesets[3].tiles # <<>>

-----------------------------------------------------------------------------
(* SpecLayers: a map of layers and nested groups *)

\* A layer with every attribute left out, and one with offset (3, -4),
\* parallax (0.5, 2), opacity 0.5, tint #ff00ff, visible false.
LeafAttrs ==
    {<<>>,
     <<<<"offsetx", <<51>>>>, <<"offsety", <<45, 52>>>>,
       <<"parallaxx", <<48, 46, 53>>>>, <<"parallaxy", <<50>>>>,
       <<"opacity", <<48, 46, 53>>>>, <<"tintcolor", <<35, 102, 102, 48, 48, 102, 102>>>>,
       <<"visible", <<102, 97, 108, 115, 101>>>>>>}

\* offset (10, 20), parallax (0.5, 1.0), opacity 0.5
GroupA ==
    <<<<"offsetx", <<49, 48>>>>, <<"offsety", <<50, 48>>>>,
      <<"parallaxx", <<48, 46, 53>>>>, <<"parallaxy", <<49, 46, 48>>>>, <<"opacity", <<48, 46, 53>>>>>>

\* offset (-1, 0), parallax (1, 0.25), tint #ffFF0000 (opaque red)
GroupB ==
    <<<<"offsetx", <<45, 49>>>>, <<"parallaxy", <<48, 46, 50, 53>>>>, <<"tintcolor", <<35, 102, 102, 70, 70, 48, 48, 48, 48>>>>>>

\* an opacity that is not a number
GroupBad == <<<<"opacity", <<120>>>>>>

GroupAttrs == {GroupA, GroupB, GroupBad}

TileLayerDocs == {Element("layer", a) : a \in LeafAttrs}

ImageEl(attrs, file) == [attrs |-> attrs, file |-> file]

\* <image source="a.png"/> of a file that loads
ImageOk == ImageEl(<<<<"source", "a.png">>>>, Some("a.png"))

ImageLayerDocs ==
    {[Element("imagelayer", a) EXCEPT !.images = <<ImageOk>>] : a \in LeafAttrs}
    \cup {Element("imagelayer", <<>>)}

EmptyObjectGroupDocs == {Element("objectgroup", a) : a \in LeafAttrs}

GroupDocs == {Element("group", a) : a \in GroupAttrs}

LayersNext ==
    \/ \E d \in TileLayerDocs : TileLayer(d)
    \/ \E d \in ImageLayerDocs : ImageLayer(d)
    \/ \E d \in EmptyObjectGroupDocs : ObjectGroup(d)
    \/ \E d \in GroupDocs : GroupStart(d)
    \/ GroupEnd
    \/ MapEnd

SpecLayers == MapInit /\ [][LayersNext]_vars

\* The transform an element's own attributes give it.
Own(d) == layer_attributes(d.attrs, LayerLocals, d.el # "group").val

NoTransform ==
    [offset |-> <<0, 0>>, parallax |-> <<FOne, FOne>>,
     color |-> <<FOne, FOne, FOne, FOne>>]

\* The transform t inside enclosing groups of combined transform acc.
Within(acc, t) ==
    [offset |-> <<acc.offset[1] + t.offset[1], acc.offset[2] + t.offset[2]>>,
     parallax |-> <<FMul(acc.parallax[1], t.parallax[1]),
                    FMul(acc.parallax[2], t.parallax[2])>>,
     color |-> Vec4Mul(acc.color, t.color)]

KindOf(el) ==
    CASE el = "layer" -> "TileLayer"
      [] el = "objectgroup" -> "ObjectLayer"
      [] el = "imagelayer" -> "ImageLayer"
      [] OTHER -> "Group"

\* The layer l is what the element d must have become inside groups of
\* combined transform acc: a Group with one layer per child element, or a leaf
\* with its own transform combined with acc.
RECURSIVE Carries(_, _, _)
Carries(l, d, acc) ==
    IF d.el = "group"
    THEN /\ l.kind = "Group"
         /\ Len(l.layers) = Len(d.children)
         /\ \A i \in 1..Len(d.children) :
                Carries(l.layers[i], d.children[i], Within(acc, Own(d)))
    ELSE /\ l.kind = KindOf(d.el)
         /\ l.offset = Within(acc, Own(d)).offset
         /\ l.parallax = Within(acc, Own(d)).parallax
         /\ l.color = Within(acc, Own(d)).color

LayerEls(d) == SelectSeq(d.children, LAMBDA c : c.el # "tileset")

\* The layers pushed so far by the k-th open element (1 is the map).
LayersOf(k) == IF k = 1 THEN layers ELSE stack[k - 1].layers

\* C1: once a group is parsed, every leaf layer below it, at any depth,
\* carries its own offset plus the offsets of all its enclosing groups, its
\* parallax and tint multiplied by theirs (opacity in alpha), and the Group
\* nodes stay in the tree.
C1_GroupTransformInLeaves ==
    \A k \in 1..Len(docs) :
        \A i \in 1..Len(LayersOf(k)) :
            Carries(LayersOf(k)[i], LayerEls(docs[k])[i], NoTransform)

\* A tile layer with the second attribute set, in GroupB, in GroupA.
C1_Witness ==
    /\ map_res = "ok" /\ Len(layers) = 1
    /\ docs[1].children[1].attrs = GroupA
    /\ Len(docs[1].children[1].children) = 1
    /\ docs[1].children[1].children[1].attrs = GroupB
    /\ layers[1].kind = "Group"
    /\ layers[1].layers[1].kind = "Group"
    /\ Len(layers[1].layers[1].layers) = 1
    /\ layers[1].layers[1].layers[1].kind = "TileLayer"
    /\ layers[1].layers[1].layers[1].offset = <<12, 16>>
    /\ layers[1].layers[1].layers[1].parallax = <<F32(1, 4), F32(1, 2)>>
    /\ layers[1].layers[1].layers[1].color = <<FOne, FZero, FZero, F32(1, 4)>>

-----------------------------------------------------------------------------
(* SpecMap: a map of external tilesets and top-level object layers *)

MaxObjects == 1

MapTilesetDocs ==
    {TilesetEl(<<<<"firstgid", DecText(g)>>, <<"source", src>>>>, <<>>) :
         g \in {1, 5}, src \in {"a.tsx", "b.tsx"}}

\* An object instancing a template whose object has the gid and whose tileset
\* element has the firstgid and the source.
TemplatedObject(attrs, gid, firstgid, src) ==
    ObjectEl(Append(attrs, <<"template", "t.tx">>), <<>>,
             Some(TemplateFile("template",
                               Some(<<<<"firstgid", DecText(firstgid)>>,
                                      <<"source", src>>>>),
                               <<ObjectEl(<<<<"gid", DecText(gid)>>>>, <<>>, None)>>)))

\* A plain object; template objects with gid 3 of a.tsx at firstgid 2 and at
\* firstgid 4 (above the gid); one whose instance sets a gid of its own.
MapObjectDocs ==
    {ObjectEl(<<<<"x", DecText(5)>>>>, <<>>, None),
     TemplatedObject(<<>>, 3, 2, "a.tsx"),
     TemplatedObject(<<>>, 3, 4, "a.tsx"),
     TemplatedObject(<<<<"gid", DecText(9)>>>>, 3, 2, "a.tsx")}

MapObjectGroupDocs ==
    {[Element("objectgroup", <<>>) EXCEPT !.objects = ods] :
         ods \in SeqsUpTo(MapObjectDocs, MaxObjects)}

MapNext ==
    \/ \E d \in MapTilesetDocs : MapTileset(d)
    \/ \E d \in MapObjectGroupDocs : Len(layers) < MaxObjectLayers /\ ObjectGroup(d)
    \/ MapEnd

SpecMap == MapInit /\ [][MapNext]_vars

\* The position among the map's children of its li-th layer element.
ChildIndex(li) ==
    CHOOSE c \in 1..Len(docs[1].children) :
        /\ docs[1].children[c].el # "tileset"
        /\ Len(LayerEls([children |-> SubSeq(docs[1].children, 1, c)])) = li

\* The tilesets declared before the map's c-th child.
DeclaredBefore(c) ==
    SubSeq(tilesets, 1, Len(SelectSeq(SubSeq(docs[1].children, 1, c - 1),
                                      LAMBDA e : e.el = "tileset")))

AttrValue(attrs, name) == attrs[CHOOSE i \in 1..Len(attrs) : attrs[i][1] = name][2]

\* The object element takes its gid from the object of its template.
FromTemplateWithGid(od) ==
    /\ HasAttribute(od.attrs, "template") /\ ~HasAttribute(od.attrs, "gid")
    /\ od.file # None /\ od.file[1].root = "template"
    /\ od.file[1].tileset # None /\ od.file[1].objects # <<>>
    /\ HasAttribute(od.file[1].objects[1].attrs, "gid")

TemplateGid(od) == ParseU32Int(AttrValue(od.file[1].objects[1].attrs, "gid")).val

TemplateFirstGid(od) == ParseU32Int(AttrValue(od.file[1].tileset[1], "firstgid")).val

TemplateLabel(od) == UniqueName(AttrValue(od.file[1].tileset[1], "source"))

\* The tile of every templated object of the returned map is g - f + m for
\* each tileset of the label among the given positions of DeclaredBefore.
RebasedBy(matching(_, _)) ==
    map_res = "ok" =>
        \A li \in 1..Len(layers) :
            \A oi \in 1..Len(layers[li].objects) :
                LET od == docs[1].children[ChildIndex(li)].objects[oi]
                    ts == DeclaredBefore(ChildIndex(li))
                IN  FromTemplateWithGid(od) =>
                        \A j \in matching(ts, od) :
                            layers[li].objects[oi].tile =
                                Some(TemplateGid(od) - TemplateFirstGid(od)
                                     + ts[j].first_gid)

WithLabel(ts, od) == {j \in 1..Len(ts) : ts[j].source = TemplateLabel(od)}

OnlyWithLabel(ts, od) == IF Cardinality(WithLabel(ts, od)) = 1 THEN WithLabel(ts, od) ELSE {}

\* C4: an object populated from a template (gid g, tileset firstgid f and
\* source s), in a map that has already declared a tileset of the label of s
\* with first_gid m, has the tile g - f + m in the returned Map.
C4_RebasedOnce == RebasedBy(WithLabel)

\* The same where exactly one declared tileset has the label.
C4_RebasedByOnlyTileset == RebasedBy(OnlyWithLabel)

\* gid 3 of a template at firstgid 2, in a map with a.tsx at 5 only.
C4_Witness ==
    /\ map_res = "ok" /\ Len(layers) = 1 /\ Len(tilesets) = 2
    /\ tilesets[1].source = UniqueName("b.tsx")
    /\ tilesets[2].source = UniqueName("a.tsx") /\ tilesets[2].first_gid = 5
    /\ ChildIndex(1) = 3
    /\ Len(layers[1].objects) = 1
    /\ FromTemplateWithGid(docs[1].children[3].objects[1])
    /\ layers[1].objects[1].tile = Some(6)

\* The object carries the marker of a template tileset.
Marked(o) == HasKey(o.properties, IncludeTileset)

\* The object element instances a template with a tileset and a gid, and
\* sets a gid of its own.
InstanceWithGid(od) ==
    /\ HasAttribute(od.attrs, "template") /\ HasAttribute(od.attrs, "gid")
    /\ od.file # None /\ od.file[1].root = "template"
    /\ od.file[1].tileset # None /\ od.file[1].objects # <<>>
    /\ HasAttribute(od.file[1].objects[1].attrs, "gid")

InstanceGid(od) == ParseU32Int(AttrValue(od.attrs, "gid")).val

\* The sum of the first gids of the tilesets ts at the positions js.
RECURSIVE FirstGidSum(_, _)
FirstGidSum(ts, js) ==
    IF js = {} THEN 0
    ELSE ts[CHOOSE j \in js : TRUE].first_gid
         + FirstGidSum(ts, js \ {CHOOSE j \in js : TRUE})

\* The tile of every object that sets a gid on top of its template is that
\* gid plus the shift.
InstanceTile(shift(_, _)) ==
    map_res = "ok" =>
        \A li \in 1..Len(layers) :
            \A oi \in 1..Len(layers[li].objects) :
                InstanceWithGid(docs[1].children[ChildIndex(li)].objects[oi]) =>
                    layers[li].objects[oi].tile =
                        Some(InstanceGid(docs[1].children[ChildIndex(li)].objects[oi])
                             + shift(DeclaredBefore(ChildIndex(li)),
                                     docs[1].children[ChildIndex(li)].objects[oi]))

NoShift(ts, od) == 0

LabelShift(ts, od) == FirstGidSum(ts, WithLabel(ts, od))

\* C25: an instance that sets a gid of its own on top of a template with a
\* tileset and a tile has that gid, unchanged, as its tile in the returned Map.
C25_InstanceGidUnchanged == InstanceTile(NoShift)

\* C25 as the code has it: the marker of the template stays on the object, and
\* process adds the first gid of every declared tileset of the template's
\* label to the instance's gid.
C25_InstanceGidRebased ==
    /\ InstanceTile(LabelShift)
    /\ map_res = "ok" =>
           \A li \in 1..Len(layers) :
               \A oi \in 1..Len(layers[li].objects) :
                   InstanceWithGid(docs[1].children[ChildIndex(li)].objects[oi]) =>
                       /\ Marked(layers[li].objects[oi])
                       /\ WithLabel(DeclaredBefore(ChildIndex(li)),
                                    docs[1].children[ChildIndex(li)].objects[oi]) # {}

\* gid 9 on an instance of the template, in a map with a.tsx at 5: tile 14.
C25_Witness ==
    /\ map_res = "ok" /\ Len(layers) = 1 /\ Len(tilesets) = 1
    /\ tilesets[1].source = UniqueName("a.tsx") /\ tilesets[1].first_gid = 5
    /\ Len(layers[1].objects) = 1
    /\ InstanceWithGid(docs[1].children[2].objects[1])
    /\ InstanceGid(docs[1].children[2].objects[1]) = 9
    /\ layers[1].objects[1].tile = Some(14)

\* The object layer element d holds an object that carries the marker of a
\* tileset label that none of the tilesets ts has.
Unresolved(d, ts) ==
    LET parsed == parse_objects(d, overflow_checks)
    IN  /\ parsed.ok
        /\ \E oi \in 1..Len(parsed.val.objects) :
               LET props == parsed.val.objects[oi].properties
               IN  /\ HasKey(props, IncludeTileset)
                   /\ \A j \in 1..Len(ts) : ts[j].source # Get(props, IncludeTileset).v

\* The map's c-th child is an object layer with an unresolved marker: the
\* load ended with the outcome, and the layer was not appended.
UnresolvedEndsWith(outcome) ==
    \A c \in 1..Len(docs[1].children) :
        (/\ docs[1].children[c].el = "objectgroup"
         /\ Unresolved(docs[1].children[c], DeclaredBefore(c))) =>
            /\ map_res = outcome
            /\ Len(layers) = Len(LayerEls([children |-> SubSeq(docs[1].children, 1, c - 1)]))

\* C5: a top-level object layer with an object that carries the template
\* tileset marker, when no tileset parsed earlier has the label, makes the load
\* fail with an error result; the layer is not appended.
C5_UnresolvedIsError == UnresolvedEndsWith("err")

\* What the code does there: it panics.
C5_UnresolvedPanics == UnresolvedEndsWith("panic")

C5_Witness ==
    /\ map_res = "panic" /\ layers = <<>> /\ Len(tilesets) = 1
    /\ tilesets[1].source = UniqueName("b.tsx")
    /\ Len(docs[1].children) = 2
    /\ docs[1].children[2].objects = <<TemplatedObject(<<>>, 3, 2, "a.tsx")>>

-----------------------------------------------------------------------------
(* Map::parse: the attributes of the map element.  Values of the closed      *)
(* enumerations are strings; numbers are texts.                              *)

\* A match that takes the initial value for an unknown name.
render_order_or_default(v) ==
    IF v \in {"right-down", "right-up", "left-down", "left-up"} THEN Ok(v)
    ELSE Ok("right-down")

\* The match of "renderorder".
render_order_of(v) ==
    IF v \in {"right-down", "right-up", "left-down", "left-up"} THEN Ok(v)
    ELSE Fail("err")

\* The match of "orientation": the number kept in `tile_type`.
orientation_of(v) ==
    CASE v = "orthogonal" -> Ok(0)
      [] v = "isometric" -> Ok(1)
      [] v = "staggered" -> Ok(2)
      [] v = "hexagonal" -> Ok(3)
      [] OTHER -> Fail("err")

\* The match of "staggeraxis": stagger_y.
stagger_axis_of(v) ==
    CASE v = "x" -> Ok(FALSE)
      [] v = "y" -> Ok(TRUE)
      [] OTHER -> Fail("err")

\* The match of "staggerindex": stagger_i.
stagger_index_of(v) ==
    CASE v = "odd" -> Ok(TRUE)
      [] v = "even" -> Ok(FALSE)
      [] OTHER -> Fail("err")

\* The locals of Map::parse before the attribute loop.
MapLocals ==
    [width |-> 0, height |-> 0, tile_width |-> 0, tile_height |-> 0,
     render_order |-> "right-down", tile_type |-> 0, stagger_y |-> FALSE,
     stagger_i |-> TRUE, hex_side_length |-> 0, background |-> <<0, 0, 0, 0>>]

\* One arm of the attribute loop of Map::parse.
map_attribute(st, a) ==
    CASE a[1] = "width" -> MapOk(ParseU32Int(a[2]), LAMBDA v : [st EXCEPT !.width = v])
      [] a[1] = "height" -> MapOk(ParseU32Int(a[2]), LAMBDA v : [st EXCEPT !.height = v])
      [] a[1] = "tilewidth" ->
           MapOk(ParseU32Int(a[2]), LAMBDA v : [st EXCEPT !.tile_width = v])
      [] a[1] = "tileheight" ->
           MapOk(ParseU32Int(a[2]), LAMBDA v : [st EXCEPT !.tile_height = v])
      [] a[1] = "renderorder" ->
           MapOk(render_order_of(a[2]), LAMBDA v : [st EXCEPT !.render_order = v])
      [] a[1] = "orientation" ->
           MapOk(orientation_of(a[2]), LAMBDA v : [st EXCEPT !.tile_type = v])
      [] a[1] = "backgroundcolor" -> Ok([st EXCEPT !.background = <<1, 1, 1, 1>>])
      [] a[1] = "staggeraxis" ->
           MapOk(stagger_axis_of(a[2]), LAMBDA v : [st EXCEPT !.stagger_y = v])
      [] a[1] = "staggerindex" ->
           MapOk(stagger_index_of(a[2]), LAMBDA v : [st EXCEPT !.stagger_i = v])
      [] a[1] = "hexsidelength" ->
           MapOk(ParseU32Int(a[2]), LAMBDA v : [st EXCEPT !.hex_side_length = v])
      [] OTHER -> Ok(st)

RECURSIVE map_attributes(_, _)
map_attributes(attrs, st) ==
    IF attrs = <<>> THEN Ok(st)
    ELSE AndThen(map_attribute(st, Head(attrs)),
                 LAMBDA next : map_attributes(Tail(attrs), next))

\* The match on `tile_type` with the Ortho arm for every number.
map_tile_type_ortho(st) == Ortho(st.tile_width, st.tile_height)

\* `result.tile_type = match tile_type { .. }`; the Hexagonal arm takes
\* tile_width for the height.
map_tile_type(st) ==
    CASE st.tile_type = 0 -> Ortho(st.tile_width, st.tile_height)
      [] st.tile_type = 1 ->
           Isometric(st.tile_width, st.tile_height, FALSE, st.stagger_i, st.stagger_y)
      [] st.tile_type = 2 ->
           Isometric(st.tile_width, st.tile_height, TRUE, st.stagger_i, st.stagger_y)
      [] st.tile_type = 3 ->
           Hexagonal(st.tile_width, st.tile_width, st.stagger_i, st.stagger_y,
                     st.hex_side_length)

\* The Map that Map::parse holds when it enters the child loop.
map_header(attrs) ==
    MapOk(map_attributes(attrs, MapLocals),
          LAMBDA st : [width |-> st.width, height |-> st.height,
                       tile_type |-> map_tile_type(st),
                       render_order |-> st.render_order,
                       background |-> st.background])

(* The map elements read, and the attribute part of Map::parse as one step *)

RenderOrderTexts == {"right-down", "right-up", "left-down", "left-up", "Right-Down", ""}

OrientationTexts == {"orthogonal", "isometric", "staggered", "hexagonal", "oblique"}

StaggerAxisTexts == {"x", "y", "z"}

StaggerIndexTexts == {"odd", "even", "0"}

\* "16" and "1x"
TileWidthTexts == {<<49, 54>>, <<49, 120>>}

\* No attribute of the name, or one with a value of the set.
OptAttr(name, values) == {<<>>} \cup {<<<<name, v>>>> : v \in values}

MapAttrs ==
    {w \o ro \o o \o sa \o si :
        w \in OptAttr("tilewidth", TileWidthTexts),
        ro \in OptAttr("renderorder", RenderOrderTexts),
        o \in OptAttr("orientation", OrientationTexts),
        sa \in OptAttr("staggeraxis", StaggerAxisTexts),
        si \in OptAttr("staggerindex", StaggerIndexTexts)}

HeaderInit ==
    /\ GeoIdle /\ DataIdle /\ MapIdle /\ ObjIdle /\ IterIdle /\ TexIdle
    /\ args \in {[fn |-> "Map::parse", attrs |-> a] : a \in MapAttrs}
    /\ returned = Fail("pending")

ParseHeader ==
    /\ args.fn = "Map::parse" /\ returned = Fail("pending")
    /\ returned' = map_header(args.attrs)
    /\ UNCHANGED <<args, notCall>>

HeaderNext == ParseHeader

SpecHeader == HeaderInit /\ [][HeaderNext]_vars

\* The map element has the attribute with a value outside the set.
HasValueOutside(name, accepted) ==
    \E i \in 1..Len(args.attrs) :
        args.attrs[i][1] = name /\ args.attrs[i][2] \notin accepted

\* C14: a renderorder, orientation, staggeraxis or staggerindex attribute of
\* the map element with a value outside its closed set makes the load return
\* an error and no Map; no default is substituted.
C14_ClosedEnumerations ==
    (/\ returned # Fail("pending")
     /\ \/ HasValueOutside("renderorder", {"right-down", "right-up", "left-down", "left-up"})
        \/ HasValueOutside("orientation",
                           {"orthogonal", "isometric", "staggered", "hexagonal"})
        \/ HasValueOutside("staggeraxis", {"x", "y"})
        \/ HasValueOutside("staggerindex", {"odd", "even"}))
        => returned = Fail("err")

\* renderorder="Right-Down" on an otherwise valid staggered map was refused.
C14_Witness ==
    /\ returned = Fail("err")
    /\ args.attrs = <<<<"tilewidth", <<49, 54>>>>, <<"renderorder", "Right-Down">>,
                      <<"orientation", "staggered">>, <<"staggeraxis", "y">>,
                      <<"staggerindex", "even">>>>

-----------------------------------------------------------------------------
(* parse_color on the colour texts a writer produces *)

MaxColorBytes == 4

\* 0x00, 0x80, 0xab and 0xff
ColorByteValues == {0, 128, 171, 255}

HexDigit(n, upper) ==
    IF n < 10 THEN 48 + n ELSE (IF upper THEN 65 ELSE 97) + (n - 10)

\* The bytes as two hex digits each.
HexText(bytes, upper) ==
    Flatten([i \in 1..Len(bytes) |->
                <<HexDigit(bytes[i] \div 16, upper), HexDigit(bytes[i] % 16, upper)>>])

\* A colour text: '#' or not, the bytes in hex, and possibly one digit more.
ColorDocs ==
    [hash : BOOLEAN, bytes : SeqsUpTo(ColorByteValues, MaxColorBytes),
     upper : BOOLEAN, odd : BOOLEAN]

ColorText(d) ==
    (IF d.hash THEN <<35>> ELSE <<>>) \o HexText(d.bytes, d.upper)
        \o (IF d.odd THEN <<55>> ELSE <<>>)

ColorInit ==
    /\ GeoIdle /\ DataIdle /\ MapIdle /\ ObjIdle /\ IterIdle /\ TexIdle
    /\ args \in {[fn |-> "parse_color", doc |-> d, text |-> ColorText(d)] : d \in ColorDocs}
    /\ returned = Fail("pending")

ParseColor ==
    /\ args.fn = "parse_color" /\ returned = Fail("pending")
    /\ returned' = parse_color(args.text)
    /\ UNCHANGED <<args, notCall>>

ColorNext == ParseColor

SpecColor == ColorInit /\ [][ColorNext]_vars

\* C15: parse_color returns [alpha, red, green, blue]: six hex digits RRGGBB
\* give [255, RR, GG, BB], eight hex digits AARRGGBB give [AA, RR, GG, BB],
\* and any other number of digits is an error.
C15_AlphaRedGreenBlue ==
    returned # Fail("pending") =>
        CASE Len(args.doc.bytes) = 3 /\ ~args.doc.odd ->
               returned = Ok(<<255>> \o args.doc.bytes)
          [] Len(args.doc.bytes) = 4 /\ ~args.doc.odd ->
               returned = Ok(args.doc.bytes)
          [] OTHER -> returned = Fail("err")

\* "80ff0000" gave alpha 128, red 255, green 0, blue 0.
C15_Witness ==
    /\ args.fn = "parse_color"
    /\ args.text = <<56, 48, 102, 102, 48, 48, 48, 48>>
    /\ returned = Ok(<<128, 255, 0, 0>>)

-----------------------------------------------------------------------------
(* Map::objects and the iterator Objects.  `iter` is None before the call of *)
(* objects(), then Some(the Objects value).                                  *)

\* What a call of next() returns, with the iterator as the call leaves it.
Yield(it, item) == [it |-> it, item |-> item]

RECURSIVE objects_next(_)

\* The match on self.l[0] without the arm for groups.
objects_layer_flat(it) ==
    CASE Head(it.l).kind = "ObjectLayer" /\ it.i < Len(Head(it.l).objects) ->
           Yield([it EXCEPT !.i = @ + 1], Some(<<it.z, Head(it.l).objects[it.i + 1]>>))
      [] OTHER -> objects_next(Objects(Tail(it.l), 0, it.z + 1, it.sub))

\* The match on self.l[0], and for a layer that yields nothing the step to
\* the next layer followed by `return self.next()`.
objects_layer(it) ==
    CASE Head(it.l).kind = "Group" ->
           objects_next(Objects(Tail(it.l), 0, it.z + 1,
                                Some(Objects(Head(it.l).layers, 0, it.z, None))))
      [] Head(it.l).kind = "ObjectLayer" /\ it.i < Len(Head(it.l).objects) ->
           Yield([it EXCEPT !.i = @ + 1], Some(<<it.z, Head(it.l).objects[it.i + 1]>>))
      [] OTHER -> objects_next(Objects(Tail(it.l), 0, it.z + 1, it.sub))

\* next() from `if !self.l.is_empty()` on.
objects_own(it) == IF it.l = <<>> THEN Yield(it, None) ELSE objects_layer(it)

\* next() when self.sub is Some and its next() returned r.
objects_sub(it, r) ==
    IF r.item # None THEN Yield([it EXCEPT !.sub = Some(r.it)], r.item)
    ELSE objects_own([it EXCEPT !.z = r.it.z + 1, !.sub = None])

\* <Objects as Iterator>::next
objects_next(it) ==
    IF it.sub # None THEN objects_sub(it, objects_next(it.sub[1])) ELSE objects_own(it)

(* The maps iterated over: every forest of layers with at most MaxIterNodes  *)
(* layers, groups included.                                                  *)

MaxIterNodes == 4

MaxIterObjects == 2

MaxEnds == 2

\* An object layer with the objects of ids 1..n.
IterObjectLayer(n) ==
    LeafLayer("ObjectLayer", LayerLocals, [i \in 1..n |-> [DefaultObject EXCEPT !.id = i]])

IterLeaves ==
    {LeafLayer("TileLayer", LayerLocals, <<>>)}
        \cup {IterObjectLayer(n) : n \in 0..MaxIterObjects}

\* The sequences of layers with at most n layers in all.
RECURSIVE IterForests(_)
IterForests(n) ==
    IF n = 0 THEN {<<>>}
    ELSE {<<>>} \cup UNION {
             {<<l>> \o rest :
                  l \in IterLeaves \cup {GroupLayer(f) : f \in IterForests(k - 1)},
                  rest \in IterForests(n - k)} : k \in 1..n}

IterInit ==
    /\ GeoIdle /\ DataIdle /\ ObjIdle /\ CallIdle
    /\ tilesets = <<>> /\ layers \in IterForests(MaxIterNodes)
    /\ stack = <<>> /\ docs = <<>> /\ map_res = "ok"
    /\ overflow_checks = FALSE /\ lookup = NoLookup
    /\ iter = None /\ yielded = <<>>
    /\ TexIdle

\* Map::objects
MapObjects ==
    /\ map_res = "ok" /\ iter = None
    /\ iter' = Some(Objects(layers, 0, 0, None))
    /\ UNCHANGED <<yielded, mapVars, geoVars, dataVars, objVars, callVars, texVars>>

\* The caller keeps r's iterator and item.
Returned(r) == iter' = Some(r.it) /\ yielded' = Append(yielded, r.item)

\* One call of next(); the caller goes on for MaxEnds calls after the end.
ObjectsNext ==
    /\ iter # None
    /\ Len(SelectSeq(yielded, LAMBDA y : y = None)) < MaxEnds
    /\ Returned(objects_next(iter[1]))
    /\ UNCHANGED <<mapVars, geoVars, dataVars, objVars, callVars, texVars>>

IterNext == MapObjects \/ ObjectsNext

SpecObjects == IterInit /\ [][IterNext]_vars

\* The objects of the layers in document order, each with the path of its
\* layer: the positions from the map down to the layer.
RECURSIVE DocItems(_, _)
DocItems(ls, prefix) ==
    Flatten([k \in 1..Len(ls) |->
        CASE ls[k].kind = "Group" -> DocItems(ls[k].layers, Append(prefix, k))
          [] ls[k].kind = "ObjectLayer" ->
               [i \in 1..Len(ls[k].objects) |->
                   [path |-> Append(prefix, k), object |-> ls[k].objects[i]]]
          [] OTHER -> <<>>])

\* The calls that returned an item.
Items == SelectSeq(yielded, LAMBDA y : y # None)

\* C16: Map::objects() yields every Object of every ObjectLayer, those inside
\* groups at any depth included, exactly once and in document order, then
\* ends; the objects of one layer have the same z, and objects of a later
\* layer a strictly larger z (so z never decreases).
C16_ObjectsInDocumentOrder ==
    /\ \A k \in 1..Len(Items) : yielded[k] # None
    /\ Len(Items) <= Len(DocItems(layers, <<>>))
    /\ \A k \in 1..Len(Items) : Items[k][1][2] = DocItems(layers, <<>>)[k].object
    /\ Len(yielded) > Len(Items) => Len(Items) = Len(DocItems(layers, <<>>))
    /\ \A j, k \in 1..Len(Items) :
           j < k =>
               IF DocItems(layers, <<>>)[j].path = DocItems(layers, <<>>)[k].path
               THEN Items[j][1][1] = Items[k][1][1]
               ELSE Items[j][1][1] < Items[k][1][1]

\* An object layer, then a group holding a group with an object layer: the
\* three objects came at z 0, 0 and 2, and the iteration ended and stayed so.
C16_Witness ==
    /\ layers = <<IterObjectLayer(2), GroupLayer(<<GroupLayer(<<IterObjectLayer(1)>>)>>)>>
    /\ Len(yielded) = 5
    /\ yielded[1] = Some(<<0, [DefaultObject EXCEPT !.id = 1]>>)
    /\ yielded[2] = Some(<<0, [DefaultObject EXCEPT !.id = 2]>>)
    /\ yielded[3][1][2] = [DefaultObject EXCEPT !.id = 1]
    /\ yielded[4] = None /\ yielded[5] = None

-----------------------------------------------------------------------------
(* SpecLoad: a map of image layers with several image elements and of object *)
(* layers whose objects instance templates with several object elements      *)

MaxImages == 2

MaxTplObjects == 2

\* <image source="b.png"/> of a file that is missing or is no image
ImageMissing == ImageEl(<<<<"source", "b.png">>>>, None)

\* <image/>: neither a source nor data
ImageNoSource == ImageEl(<<>>, None)

\* <image source="a.png" width="x"/>
ImageBadWidth == ImageEl(<<<<"source", "a.png">>, <<"width", <<120>>>>>>, Some("a.png"))

LoadImageLayerDocs ==
    {[Element("imagelayer", <<>>) EXCEPT !.images = is] :
         is \in SeqsUpTo({ImageOk, ImageMissing, ImageNoSource, ImageBadWidth}, MaxImages)}

\* <object x="1"/>, <object y="2"/>, <object x="x"/> and
\* <object><polygon points="x"/></object> in a template file
LoadTplObjects ==
    {ObjectEl(<<<<"x", DecText(1)>>>>, <<>>, None),
     ObjectEl(<<<<"y", DecText(2)>>>>, <<>>, None),
     ObjectEl(<<<<"x", <<120>>>>>>, <<>>, None),
     ObjectEl(<<>>, <<ShapeEl("polygon", Some(<<120>>))>>, None)}

\* <objectgroup><object template="t.tx"/></objectgroup>, t.tx holding the
\* object elements os.
LoadObjectGroup(os) ==
    [Element("objectgroup", <<>>) EXCEPT
        !.objects = <<ObjectEl(<<<<"template", "t.tx">>>>, <<>>,
                               Some(TemplateFile("template", None, os)))>>]

LoadObjectGroupDocs ==
    {LoadObjectGroup(os) : os \in SeqsUpTo(LoadTplObjects, MaxTplObjects)}

LoadNext ==
    \/ \E d \in LoadImageLayerDocs : ImageLayer(d)
    \/ \E d \in LoadObjectGroupDocs : ObjectGroup(d)
    \/ MapEnd

SpecLoad == MapInit /\ [][LoadNext]_vars

\* The parse of an object element of the template file of o fails.
TemplateFails(o) ==
    /\ o.file # None
    /\ \E j \in 1..Len(o.file[1].objects) :
           ~Object_parse(o.file[1].objects[j], overflow_checks).ok

\* A parse step or file load nested in the element d fails.
NestedFailure(d) ==
    \/ \E i \in 1..Len(d.images) : ~parse_image(d.images[i]).res.ok
    \/ \E k \in 1..Len(d.objects) : TemplateFails(d.objects[k])

\* The image layer d has no image, or an image with an attribute that does
\* not parse, or its last image fails.
ImageLayerFails(d) ==
    \/ d.images = <<>>
    \/ \E i \in 1..Len(d.images) : ~image_attributes(d.images[i].attrs, ImageLocals).ok
    \/ ~parse_image(d.images[Len(d.images)]).res.ok

\* C17: the load is fail-fast: when a nested parse step or file load fails (an
\* image element of an imagelayer, an object element of a template file), the
\* load returns an error and no Map, whatever follows the failing element; a
\* later sibling that parses never turns the failure into a success.
C17_FailFast ==
    \A k \in 1..Len(docs[1].children) :
        NestedFailure(docs[1].children[k]) => map_res \in {"err", "panic"}

\* C17 as the code has it: an object element that fails in a template file
\* fails the load; an image layer fails the load exactly when it has no image,
\* an image with an attribute that does not parse, or a last image that
\* fails.  An image whose file does not load, followed by one that loads,
\* leaves the layer in the map.
C17_LastImageDecides ==
    \A k \in 1..Len(docs[1].children) :
        /\ (\E o \in 1..Len(docs[1].children[k].objects) :
                TemplateFails(docs[1].children[k].objects[o]))
              => map_res \in {"err", "panic"}
        /\ docs[1].children[k].el = "imagelayer" =>
              (ImageLayerFails(docs[1].children[k])
                  <=> (k = Len(docs[1].children) /\ map_res = "err"))

\* <imagelayer><image source="b.png"/><image source="a.png"/></imagelayer>
\* with b.png missing: the load returned a Map with the image layer.
C17_Witness ==
    /\ docs[1].children =
           <<[Element("imagelayer", <<>>) EXCEPT !.images = <<ImageMissing, ImageOk>>]>>
    /\ map_res = "ok"
    /\ Len(layers) = 1 /\ layers[1].kind = "ImageLayer"

\* A template whose first object element fails and whose second parses: the
\* load failed.
C17_TemplateWitness ==
    /\ Len(docs[1].children) = 1
    /\ docs[1].children[1] =
           LoadObjectGroup(<<ObjectEl(<<<<"x", <<120>>>>>>, <<>>, None),
                             ObjectEl(<<<<"y", DecText(2)>>>>, <<>>, None)>>)
    /\ map_res = "err" /\ layers = <<>>

-----------------------------------------------------------------------------
(* SpecSkip: the child loop of Map::parse on the reader's events, with       *)
(* parse_empty for the elements it has no arm for.  args holds the document  *)
(* and the reader: its events and the index `at` of the next one.            *)

MaxSkipNodes == 4

Ev(ev, name, attrs) == [ev |-> ev, name |-> name, attrs |-> attrs]

\* reader.next()? past the last event is an error of the reader.
RECURSIVE parse_empty(_, _)

\* parse_empty taking the first EndElement for the matching one.
RECURSIVE parse_empty_flat(_, _)
parse_empty_flat(ev, p) ==
    IF p > Len(ev) THEN Fail("err")
    ELSE IF ev[p].ev = "EndElement" THEN Ok(p + 1)
    ELSE parse_empty_flat(ev, p + 1)

\* parse_empty with the reader at event p, the StartElement having been
\* read: the index of the event after the one it read last.
parse_empty(ev, p) ==
    IF p > Len(ev) THEN Fail("err")
    ELSE CASE ev[p].ev = "StartElement" ->
                AndThen(parse_empty(ev, p + 1), LAMBDA q : parse_empty(ev, q))
           [] ev[p].ev = "EndElement" -> Ok(p + 1)
           [] OTHER -> parse_empty(ev, p + 1)

\* The loop of parse_tiles over the events of a layer element without data:
\* every child element is skipped.
RECURSIVE tiles_loop(_, _)
tiles_loop(ev, p) ==
    IF p > Len(ev) THEN Fail("err")
    ELSE CASE ev[p].ev = "StartElement" ->
                AndThen(parse_empty(ev, p + 1), LAMBDA q : tiles_loop(ev, q))
           [] ev[p].ev = "EndElement" -> Ok(p + 1)
           [] OTHER -> tiles_loop(ev, p + 1)

Node(name, attrs, children) == [name |-> name, attrs |-> attrs, children |-> children]

TextNode == Node("#text", <<>>, <<>>)

\* <layer offsetx="1">, <layer offsetx="2">, <foo>
SkipHeads ==
    {<<"layer", <<<<"offsetx", <<49>>>>>>>>, <<"layer", <<<<"offsetx", <<50>>>>>>>>,
     <<"foo", <<>>>>}

\* The forests of at most n nodes: text and elements in elements.
RECURSIVE SkipForests(_)
SkipForests(n) ==
    IF n = 0 THEN {<<>>}
    ELSE {<<>>} \cup UNION {
             {<<l>> \o rest :
                  l \in {TextNode} \cup {Node(h[1], h[2], f) :
                                              h \in SkipHeads, f \in SkipForests(k - 1)},
                  rest \in SkipForests(n - k)} : k \in 1..n}

\* The events the reader yields for a forest.
RECURSIVE ForestEvents(_)
ForestEvents(f) ==
    Flatten([i \in 1..Len(f) |->
        IF f[i].name = "#text" THEN <<Ev("Characters", "", <<>>)>>
        ELSE <<Ev("StartElement", f[i].name, f[i].attrs)>>
             \o ForestEvents(f[i].children)
             \o <<Ev("EndElement", f[i].name, <<>>)>>])

\* Map::parse is called after the StartElement of the map element.
SkipInit ==
    /\ GeoIdle /\ DataIdle /\ ObjIdle /\ IterIdle /\ TexIdle
    /\ tilesets = <<>> /\ layers = <<>> /\ stack = <<>> /\ docs = <<>>
    /\ map_res = "run" /\ overflow_checks = FALSE /\ lookup = NoLookup
    /\ \E f \in SkipForests(MaxSkipNodes) :
           args = [fn |-> "Map::parse", doc |-> f,
                   events |-> ForestEvents(f) \o <<Ev("EndElement", "map", <<>>)>>,
                   at |-> 1]
    /\ returned = Fail("idle")

\* A callee returned r, the index after the events it read, or failed.
ReaderAt(r) ==
    IF r.ok THEN args' = [args EXCEPT !.at = r.val] /\ map_res' = map_res
    ELSE args' = args /\ map_res' = "err"

\* parse_tiles returned the layer l, its loop having ended with r.
PushLayer(l, r) ==
    IF l.ok /\ r.ok THEN layers' = Append(layers, l.val) ELSE layers' = layers

\* "layer" => result.layers.push(Layer::parse_tiles(attributes, reader)?)
ReadLayer ==
    /\ map_res = "run" /\ args.fn = "Map::parse"
    /\ args.events[args.at].ev = "StartElement"
    /\ args.events[args.at].name = "layer"
    /\ ReaderAt(AndThen(parse_tiles(args.events[args.at]),
                        LAMBDA l : tiles_loop(args.events, args.at + 1)))
    /\ PushLayer(parse_tiles(args.events[args.at]), tiles_loop(args.events, args.at + 1))
    /\ returned' = Ok([fn |-> "parse_tiles", from |-> args.at])
    /\ UNCHANGED <<tilesets, stack, docs, overflow_checks, lookup, geoVars, dataVars,
                   objVars, iterVars, texVars>>

\* _ => parse_empty(reader)?
ReadUnknown ==
    /\ map_res = "run" /\ args.fn = "Map::parse"
    /\ args.events[args.at].ev = "StartElement"
    /\ args.events[args.at].name # "layer"
    /\ ReaderAt(parse_empty(args.events, args.at + 1))
    /\ returned' = Ok([fn |-> "parse_empty", from |-> args.at])
    /\ UNCHANGED <<tilesets, layers, stack, docs, overflow_checks, lookup, geoVars,
                   dataVars, objVars, iterVars, texVars>>

\* _ => true
ReadOther ==
    /\ map_res = "run" /\ args.fn = "Map::parse"
    /\ args.events[args.at].ev = "Characters"
    /\ args' = [args EXCEPT !.at = @ + 1]
    /\ returned' = Ok([fn |-> "", from |-> args.at])
    /\ UNCHANGED <<mapVars, geoVars, dataVars, objVars, iterVars, texVars>>

\* XmlEvent::EndElement => false, then Ok(result)
ReadEnd ==
    /\ map_res = "run" /\ args.fn = "Map::parse"
    /\ args.events[args.at].ev = "EndElement"
    /\ args' = [args EXCEPT !.at = @ + 1]
    /\ map_res' = "ok"
    /\ returned' = Ok([fn |-> "", from |-> args.at])
    /\ UNCHANGED <<tilesets, layers, stack, docs, overflow_checks, lookup, geoVars,
                   dataVars, objVars, iterVars, texVars>>

SkipNext == ReadLayer \/ ReadUnknown \/ ReadOther \/ ReadEnd

SpecSkip == SkipInit /\ [][SkipNext]_vars

\* StartElement less EndElement events among the events p..q.
Depth(ev, p, q) ==
    Cardinality({i \in p..q : ev[i].ev = "StartElement"})
        - Cardinality({i \in p..q : ev[i].ev = "EndElement"})

\* The index of the end tag of the element that starts at event p.
MatchingEnd(ev, p) ==
    CHOOSE q \in (p + 1)..Len(ev) :
        Depth(ev, p, q) = 0 /\ \A r \in p..(q - 1) : Depth(ev, p, r) > 0

\* The document without the child elements that Map::parse has no arm for.
Known(f) == SelectSeq(f, LAMBDA n : n.name \in {"layer", "#text"})

\* The layers of the layer elements among the children of the map element.
TopLayers(f) ==
    [i \in 1..Len(SelectSeq(f, LAMBDA n : n.name = "layer")) |->
        parse_tiles(SelectSeq(f, LAMBDA n : n.name = "layer")[i]).val]

\* C18: skipping an unrecognized element reads exactly the events up to and
\* including its matching end tag, whatever it holds and however deep it
\* nests (elements with recognized names included), and raises no error; what
\* follows is parsed as if the element were absent: the Map is the one of the
\* document without it.
C18_SkipConsumesElement ==
    /\ map_res # "err"
    /\ (returned.ok /\ returned.val.fn = "parse_empty") =>
           args.at = MatchingEnd(args.events, returned.val.from) + 1
    /\ map_res = "ok" =>
           /\ args.at = Len(args.events) + 1
           /\ layers = TopLayers(args.doc)
           /\ layers = TopLayers(Known(args.doc))

\* <foo><layer offsetx="1"/><foo/></foo><layer offsetx="2"/>: the map has the
\* second layer only.
C18_Witness ==
    /\ args.fn = "Map::parse"
    /\ args.doc = <<Node("foo", <<>>,
                         <<Node("layer", <<<<"offsetx", <<49>>>>>>, <<>>),
                           Node("foo", <<>>, <<>>)>>),
                    Node("layer", <<<<"offsetx", <<50>>>>>>, <<>>)>>
    /\ map_res = "ok"
    /\ Len(layers) = 1 /\ layers[1].offset = <<2, 0>>

-----------------------------------------------------------------------------
(* SpecTile: the "tile" arm of parse_tsx and Tile::join on tiles with all    *)
(* their fields.  args holds tileset.tiles and the (id, tile) of Tile::parse *)

MaxSlots == 2

MaxTileIndex == 3

Tile(image, top_left, bottom_right, width, height, animation, properties, shapes) ==
    [image |-> image, top_left |-> top_left, bottom_right |-> bottom_right,
     width |-> width, height |-> height, animation |-> animation,
     properties |-> properties, shapes |-> shapes]

\* Tile::join with every field taken from the explicit tile.
Tile_join_replace(self, new_data) ==
    [self EXCEPT !.properties = new_data.properties,
                 !.animation = new_data.animation,
                 !.top_left = new_data.top_left,
                 !.bottom_right = new_data.bottom_right,
                 !.image = new_data.image,
                 !.shapes = new_data.shapes]

\* Tile::join
Tile_join(self, new_data) ==
    [self EXCEPT !.properties = new_data.properties,
                 !.animation = new_data.animation,
                 !.top_left = IF new_data.image # None THEN new_data.top_left ELSE @,
                 !.bottom_right = IF new_data.image # None THEN new_data.bottom_right ELSE @,
                 !.image = IF new_data.image # None THEN new_data.image ELSE @,
                 !.shapes = @ \o new_data.shapes]

\* The "tile" arm of parse_tsx after Tile::parse returned (id, tile);
\* tiles[id + 1] is the slot of the 0-based id.
parse_tsx_tile(tiles, id, tile) ==
    IF id < Len(tiles)
    THEN IF tiles[id + 1] = None THEN [tiles EXCEPT ![id + 1] = Some(tile)]
         ELSE [tiles EXCEPT ![id + 1] = Some(Tile_join(@[1], tile))]
    ELSE tiles \o [i \in 1..(id - Len(tiles)) |-> None] \o <<Some(tile)>>

Frame(tile, duration) == [tile |-> tile, duration |-> duration]

\* A tile cut from the atlas by the "image" arm: the upper left quarter.
AtlasTile ==
    Tile(Some("atlas.png"), <<FZero, FZero>>, <<F32(1, 2), F32(1, 2)>>, 16, 16,
         <<>>, {}, <<>>)

\* A tile left by an earlier tile element with an image, a property, a frame
\* and a shape of its own.
EarlierTile ==
    Tile(Some("a.png"), <<FZero, FZero>>, <<FOne, FOne>>, 8, 8,
         <<Frame(1, 100)>>, {<<"a", Property("String", BarText)>>},
         <<[points |-> <<<<FZero, FZero>>>>, closed |-> FALSE]>>)

\* What Tile::parse returns: with or without an image, properties, an
\* animation, shapes.
ParsedTiles ==
    {Tile(IF img THEN Some("own.png") ELSE None, <<FZero, FZero>>, <<FOne, FOne>>,
          IF img THEN 4 ELSE 0, IF img THEN 4 ELSE 0, an, pr, sh) :
         img \in BOOLEAN,
         an \in {<<>>, <<Frame(2, 50), Frame(3, 50)>>},
         pr \in {{}, {<<"k", Property("String", BazText)>>}},
         sh \in {<<>>, <<[points |-> <<<<FOne, FOne>>, <<FZero, FOne>>>>, closed |-> TRUE]>>}}

TileInit ==
    /\ GeoIdle /\ DataIdle /\ MapIdle /\ ObjIdle /\ IterIdle /\ TexIdle
    /\ args \in {[fn |-> "tile", tiles |-> ts, id |-> k, tile |-> t] :
                   ts \in SeqsUpTo({None, Some(AtlasTile), Some(EarlierTile)}, MaxSlots),
                   k \in 0..MaxTileIndex, t \in ParsedTiles}
    /\ returned = Fail("pending")

\* "tile" => { .. } in parse_tsx
TileElement ==
    /\ args.fn = "tile" /\ returned = Fail("pending")
    /\ returned' = Ok(parse_tsx_tile(args.tiles, args.id, args.tile))
    /\ UNCHANGED <<args, notCall>>

TileNext == TileElement

SpecTile == TileInit /\ [][TileNext]_vars

\* The slot of args.id before and after the tile element.
SlotBefore == args.tiles[args.id + 1][1]

SlotAfter == returned.val[args.id + 1][1]

\* C19: an explicit tile element with id k on a tile sequence of length L.
\* k < L, slot empty: the slot becomes the explicit tile.  k < L, slot filled:
\* properties and animation are replaced by the explicit ones, the explicit
\* shapes come after the existing ones, image and UV rectangle are replaced
\* only when the explicit tile has an image.  k >= L: the sequence is padded
\* with None up to index k and the tile is stored at k.  Slot k is filled
\* afterwards and every other existing slot is unchanged.
C19_TileElementJoins ==
    (args.fn = "tile" /\ returned.ok) =>
        /\ args.id < Len(args.tiles) =>
              /\ Len(returned.val) = Len(args.tiles)
              /\ IF args.tiles[args.id + 1] = None
                 THEN returned.val[args.id + 1] = Some(args.tile)
                 ELSE /\ SlotAfter.properties = args.tile.properties
                      /\ SlotAfter.animation = args.tile.animation
                      /\ SlotAfter.shapes = SlotBefore.shapes \o args.tile.shapes
                      /\ <<SlotAfter.image, SlotAfter.top_left, SlotAfter.bottom_right>> =
                            IF args.tile.image # None
                            THEN <<args.tile.image, args.tile.top_left,
                                   args.tile.bottom_right>>
                            ELSE <<SlotBefore.image, SlotBefore.top_left,
                                   SlotBefore.bottom_right>>
        /\ args.id >= Len(args.tiles) =>
              /\ Len(returned.val) = args.id + 1
              /\ \A i \in (Len(args.tiles) + 1)..args.id : returned.val[i] = None
              /\ returned.val[args.id + 1] = Some(args.tile)
        /\ returned.val[args.id + 1] # None
        /\ \A i \in 1..Len(args.tiles) :
              i # args.id + 1 => returned.val[i] = args.tiles[i]

\* The atlas tile of slot 1 joined by an explicit tile without an image: it
\* keeps the atlas image and rectangle and takes the properties, the frames
\* and the shape; slot 0 stays empty.
C19_Witness ==
    /\ args.fn = "tile" /\ returned.ok
    /\ args.tiles = <<None, Some(AtlasTile)>> /\ args.id = 1
    /\ args.tile.image = None /\ Len(args.tile.shapes) = 1
    /\ returned.val[1] = None
    /\ returned.val[2][1].image = Some("atlas.png")
    /\ returned.val[2][1].bottom_right = <<F32(1, 2), F32(1, 2)>>
    /\ returned.val[2][1].properties = {<<"k", Property("String", BazText)>>}
    /\ returned.val[2][1].animation = <<Frame(2, 50), Frame(3, 50)>>
    /\ Len(returned.val[2][1].shapes) = 1

-----------------------------------------------------------------------------
(* SpecColumns: the columns of the atlas in the "image" arm of parse_tsx.    *)
(* The values are i32; the sizes read here stay far from its limits.         *)

MaxImageWidth == 12

MaxMargin == 2

MaxSpacing == 2

MaxTileWidth == 4

\* The loop with the spacing taken off once for a column.
RECURSIVE columns_loop_once(_, _, _, _)
columns_loop_once(space, cols, tile_width, spacing) ==
    IF space >= tile_width
    THEN columns_loop_once(space - (tile_width + spacing), cols + 1, tile_width, spacing)
    ELSE cols

\* while space >= tile_width { space -= tile_width + spacing;
\*                             space -= spacing; cols += 1; }
RECURSIVE columns_loop(_, _, _, _)
columns_loop(space, cols, tile_width, spacing) ==
    IF space >= tile_width
    THEN columns_loop((space - (tile_width + spacing)) - spacing, cols + 1,
                      tile_width, spacing)
    ELSE cols

\* columns.unwrap_or_else(|| ..) for an image of the given width.
columns_or_else(columns, width, margin, spacing, tile_width) ==
    IF columns # None THEN columns[1]
    ELSE columns_loop(width - margin * 2, 0, tile_width, spacing)

ColumnsInit ==
    /\ GeoIdle /\ DataIdle /\ MapIdle /\ ObjIdle /\ IterIdle /\ TexIdle
    /\ args \in {[fn |-> "columns", columns |-> c, width |-> w, margin |-> m,
                   spacing |-> sp, tile_width |-> tw] :
                   c \in {None, Some(3)}, w \in 0..MaxImageWidth, m \in 0..MaxMargin,
                   sp \in 0..MaxSpacing, tw \in 1..MaxTileWidth}
    /\ returned = Fail("pending")

\* let columns = columns.unwrap_or_else(..) in the "image" arm
Columns ==
    /\ args.fn = "columns" /\ returned = Fail("pending")
    /\ returned' = Ok(columns_or_else(args.columns, args.width, args.margin,
                                       args.spacing, args.tile_width))
    /\ UNCHANGED <<args, notCall>>

ColumnsNext == Columns

SpecColumns == ColumnsInit /\ [][ColumnsNext]_vars

\* The largest element of a finite set of numbers.
Largest(S) == CHOOSE x \in S : \A y \in S : y <= x

\* The numbers n of columns with margin + n*tile_width + (n-1)*spacing within
\* the image width.
Packed ==
    {n \in 0..(args.width + 1) :
        args.margin + n * args.tile_width + (n - 1) * args.spacing <= args.width}

\* The numbers n >= 1 with 2*margin + n*tile_width + (n-1)*2*spacing within
\* the image width.
PackedTwice ==
    {n \in 1..(args.width + 1) :
        2 * args.margin + n * args.tile_width + (n - 1) * 2 * args.spacing <= args.width}

Computed == args.fn = "columns" /\ returned.ok /\ args.columns = None

\* C20: without a columns attribute the number of atlas columns is the largest
\* n >= 0 with margin + n*tile_width + (n-1)*spacing <= image_width, for every
\* margin >= 0, spacing >= 0, tile_width > 0 and image width.
C20_LargestPacking ==
    (Computed /\ Packed # {}) => returned.val = Largest(Packed)

\* C20 as the code has it: the margin is taken off twice and every column
\* takes its width and twice the spacing, so the number of columns is the
\* largest n >= 1 with 2*margin + n*tile_width + (n-1)*2*spacing <=
\* image_width, or 0 when there is none; without margin and spacing this is the
\* number of the statement.
C20_MarginAndSpacingTwice ==
    Computed =>
        /\ returned.val = Largest(PackedTwice \cup {0})
        /\ (args.margin = 0 /\ args.spacing = 0) => returned.val = Largest(Packed)

\* An image 5 wide, tiles 2 wide, spacing 1, no margin: two tiles fit
\* (2 + 1 + 2), the code counts one column.
C20_Witness ==
    /\ Computed
    /\ args.width = 5 /\ args.tile_width = 2 /\ args.spacing = 1 /\ args.margin = 0
    /\ Largest(Packed) = 2
    /\ returned.val = 1

-----------------------------------------------------------------------------
(* SpecTileType: Map::parse on map elements with valid attributes, and the   *)
(* accessors of the TileType it builds.  args.doc holds the numbers and      *)
(* names written, None for an attribute left out; args.attrs the attributes. *)

\* TileType::tile_width
tile_width(t) == t.width

\* TileType::tile_height
tile_height(t) == t.height

\* The attribute `name` of a number, when written.
NumAttr(name, v) == IF v = None THEN <<>> ELSE <<<<name, DecText(v[1])>>>>

\* The attribute `name` of a name, when written.
NameAttr(name, v) == IF v = None THEN <<>> ELSE <<<<name, v[1]>>>>

Opt(S) == {None} \cup {Some(v) : v \in S}

TileTypeDocs ==
    [tilewidth : Opt({16, 32}), tileheight : Opt({8, 16}),
     orientation : Opt({"orthogonal", "isometric", "staggered", "hexagonal"}),
     renderorder : Opt({"right-down", "right-up", "left-down", "left-up"}),
     staggeraxis : Opt({"x", "y"}), staggerindex : Opt({"odd", "even"}),
     hexsidelength : Opt({6})]

TileTypeAttrs(d) ==
    NumAttr("tilewidth", d.tilewidth) \o NumAttr("tileheight", d.tileheight)
    \o NameAttr("orientation", d.orientation) \o NameAttr("renderorder", d.renderorder)
    \o NameAttr("staggeraxis", d.staggeraxis) \o NameAttr("staggerindex", d.staggerindex)
    \o NumAttr("hexsidelength", d.hexsidelength)

TileTypeInit ==
    /\ GeoIdle /\ DataIdle /\ MapIdle /\ ObjIdle /\ IterIdle /\ TexIdle
    /\ args \in {[fn |-> "Map::parse", doc |-> d, attrs |-> TileTypeAttrs(d)] :
                   d \in TileTypeDocs}
    /\ returned = Fail("pending")

TileTypeNext == ParseHeader

SpecTileType == TileTypeInit /\ [][TileTypeNext]_vars

\* The value written for an attribute, or the value the format gives it.
Written(v, default) == IF v = None THEN default ELSE v[1]

\* The variant for the orientation, with the stagger flag where it has one.
KindFor(o) ==
    CASE o = "orthogonal" -> [kind |-> "Ortho"]
      [] o = "isometric" -> [kind |-> "Isometric", stagger |-> FALSE]
      [] o = "staggered" -> [kind |-> "Isometric", stagger |-> TRUE]
      [] o = "hexagonal" -> [kind |-> "Hexagonal", side_length |-> Written(args.doc.hexsidelength, 0)]

\* The TileType has the variant of the orientation.
VariantOfOrientation ==
    \A f \in DOMAIN KindFor(Written(args.doc.orientation, "orthogonal")) :
        returned.val.tile_type[f] = KindFor(Written(args.doc.orientation, "orthogonal"))[f]

\* C21: for every orientation the TileType carries the map's tilewidth as
\* width, its tileheight as height and its renderorder; orthogonal gives
\* Ortho, isometric Isometric with stagger false, staggered Isometric with
\* stagger true, hexagonal Hexagonal with side_length = hexsidelength;
\* tile_width() and tile_height() return the tilewidth and tileheight values.
C21_TileTypeOfOrientation ==
    (args.fn = "Map::parse" /\ returned.ok) =>
        /\ VariantOfOrientation
        /\ returned.val.render_order = Written(args.doc.renderorder, "right-down")
        /\ tile_width(returned.val.tile_type) = Written(args.doc.tilewidth, 0)
        /\ tile_height(returned.val.tile_type) = Written(args.doc.tileheight, 0)

\* C21 as the code has it: all of it for the orthogonal, isometric and
\* staggered orientations; a hexagonal map gets its tilewidth as the height
\* of the TileType too.
C21_HexagonalHeightIsWidth ==
    (args.fn = "Map::parse" /\ returned.ok) =>
        /\ VariantOfOrientation
        /\ returned.val.render_order = Written(args.doc.renderorder, "right-down")
        /\ tile_width(returned.val.tile_type) = Written(args.doc.tilewidth, 0)
        /\ tile_height(returned.val.tile_type) =
              IF args.doc.orientation = Some("hexagonal")
              THEN Written(args.doc.tilewidth, 0)
              ELSE Written(args.doc.tileheight, 0)

\* <map orientation="hexagonal" tilewidth="32" tileheight="16" hexsidelength="6">:
\* the TileType is 32 wide and 32 high.
C21_Witness ==
    /\ args.fn = "Map::parse" /\ returned.ok
    /\ args.doc.orientation = Some("hexagonal")
    /\ args.doc.tilewidth = Some(32) /\ args.doc.tileheight = Some(16)
    /\ returned.val.tile_type.kind = "Hexagonal"
    /\ returned.val.tile_type.side_length = 6
    /\ tile_width(returned.val.tile_type) = 32
    /\ tile_height(returned.val.tile_type) = 32

-----------------------------------------------------------------------------
(* Image layers and the number of their image elements (SpecLoad) *)

\* The k-th child of the map element was parsed into a layer.
ChildParsed(k) == ~(k = Len(docs[1].children) /\ map_res \in {"err", "panic"})

\* C22: parsing an imagelayer element succeeds only when it holds exactly one
\* image element; without an image element it fails with an error.
C22_ExactlyOneImage ==
    \A k \in 1..Len(docs[1].children) :
        docs[1].children[k].el = "imagelayer" =>
            /\ docs[1].children[k].images = <<>> => ~ChildParsed(k) /\ map_res = "err"
            /\ ChildParsed(k) => Len(docs[1].children[k].images) = 1

\* C22 as the code has it: without an image element the parse fails; with one
\* it succeeds exactly when the image parses; with several it succeeds too,
\* when the last one parses, and the layer has the last image.
C22_AtLeastOneImage ==
    \A k \in 1..Len(docs[1].children) :
        docs[1].children[k].el = "imagelayer" =>
            /\ docs[1].children[k].images = <<>> => ~ChildParsed(k) /\ map_res = "err"
            /\ ChildParsed(k) =>
                  /\ Len(docs[1].children[k].images) >= 1
                  /\ parse_image(docs[1].children[k].images[
                         Len(docs[1].children[k].images)]).res.ok
            /\ Len(docs[1].children[k].images) = 1 =>
                  (ChildParsed(k) <=> parse_image(docs[1].children[k].images[1]).res.ok)

\* <imagelayer><image source="a.png"/><image source="a.png"/></imagelayer>
\* gave a Map with the image layer.
C22_Witness ==
    /\ docs[1].children =
           <<[Element("imagelayer", <<>>) EXCEPT !.images = <<ImageOk, ImageOk>>]>>
    /\ map_res = "ok"
    /\ Len(layers) = 1 /\ layers[1].kind = "ImageLayer"

-----------------------------------------------------------------------------
(* SpecTexture: Texture::load called by several tasks on clones of one       *)
(* Texture.  texture = Some([inner, first, mutex]): the Inner value, the     *)
(* Inner value the texture was made with, and the task holding the mutex     *)
(* (0: none).  A buffer is "pixels", or "empty" once std::mem::take took it. *)

NumCallers == 3

notTex == <<geoVars, dataVars, mapVars, objVars, callVars, iterVars>>

Callers == 1..NumCallers

\* Inner::Defined, ::Decoded and ::Loaded
InnerDefined == [state |-> "Defined", buffer |-> "", handle |-> ""]

InnerDecoded(buffer) == [state |-> "Decoded", buffer |-> buffer, handle |-> ""]

InnerLoaded(handle) == [state |-> "Loaded", buffer |-> "", handle |-> handle]

\* The handle of a labeled asset is made from the label.
HandleOf(label) == <<"handle", label>>

Label == "a.png"

Task(pc, handle, result) == [pc |-> pc, handle |-> handle, result |-> result]

TextureInit ==
    /\ GeoIdle /\ DataIdle /\ MapIdle /\ ObjIdle /\ CallIdle /\ IterIdle
    /\ \E i \in {InnerDefined, InnerDecoded("pixels")} :
           texture = Some([inner |-> i, first |-> i, mutex |-> 0])
    /\ tasks = [c \in Callers |-> Task("idle", "", Fail("pending"))]
    /\ assets = <<>>

\* A task calls load and reaches `self.data.lock().await`.
CallLoad(c) ==
    /\ texture # None /\ tasks[c].pc = "idle"
    /\ tasks' = [tasks EXCEPT ![c].pc = "lock"]
    /\ UNCHANGED <<texture, assets, notTex>>

\* lock() that does not wait for the holder.
LockAnyway(c) ==
    /\ texture # None /\ tasks[c].pc = "lock"
    /\ texture' = Some([texture[1] EXCEPT !.mutex = c])
    /\ tasks' = [tasks EXCEPT ![c].pc = "match"]
    /\ UNCHANGED <<assets, notTex>>

\* `self.data.lock().await` completes once no task holds the mutex.
Lock(c) ==
    /\ texture # None /\ tasks[c].pc = "lock"
    /\ texture[1].mutex = 0
    /\ texture' = Some([texture[1] EXCEPT !.mutex = c])
    /\ tasks' = [tasks EXCEPT ![c].pc = "match"]
    /\ UNCHANGED <<assets, notTex>>

\* set_labeled_asset(self.label, ..) with the pixels handed over.
SetLabeledAsset(buffer) == assets' = Append(assets, [label |-> Label, pixels |-> buffer])

\* `match &mut *data`: Defined starts to read the file; Decoded takes the
\* buffer out of the cell and sets the asset; Loaded clones the handle.
Match(c) ==
    /\ texture # None /\ tasks[c].pc = "match"
    /\ CASE texture[1].inner.state = "Defined" ->
              /\ tasks' = [tasks EXCEPT ![c].pc = "read"]
              /\ UNCHANGED <<texture, assets>>
         [] texture[1].inner.state = "Decoded" ->
              /\ SetLabeledAsset(texture[1].inner.buffer)
              /\ texture' = Some([texture[1] EXCEPT !.inner = InnerDecoded("empty")])
              /\ tasks' = [tasks EXCEPT ![c].pc = "store", ![c].handle = HandleOf(Label)]
         [] texture[1].inner.state = "Loaded" ->
              /\ tasks' = [tasks EXCEPT ![c].pc = "store",
                                        ![c].handle = texture[1].inner.handle]
              /\ UNCHANGED <<texture, assets>>
    /\ UNCHANGED notTex

\* `read_asset_bytes(path).await?` and the decoding returned: with the pixels
\* the asset is set; on a failure `?` returns the error and the guard is
\* dropped.
ReadFile(c, ok) ==
    /\ texture # None /\ tasks[c].pc = "read"
    /\ IF ok
       THEN /\ SetLabeledAsset("pixels")
            /\ tasks' = [tasks EXCEPT ![c].pc = "store", ![c].handle = HandleOf(Label)]
            /\ UNCHANGED texture
       ELSE /\ tasks' = [tasks EXCEPT ![c].pc = "done", ![c].result = Fail("err")]
            /\ texture' = Some([texture[1] EXCEPT
                                   !.mutex = IF @ = c THEN 0 ELSE @])
            /\ UNCHANGED assets
    /\ UNCHANGED notTex

\* `*data = Inner::Loaded { handle: handle.clone() }; Ok(handle)`, the guard
\* being dropped at the return.
StoreLoaded(c) ==
    /\ texture # None /\ tasks[c].pc = "store"
    /\ texture' = Some([texture[1] EXCEPT
                           !.inner = InnerLoaded(tasks[c].handle),
                           !.mutex = IF @ = c THEN 0 ELSE @])
    /\ tasks' = [tasks EXCEPT ![c].pc = "done", ![c].result = Ok(tasks[c].handle)]
    /\ UNCHANGED <<assets, notTex>>

TextureNext ==
    \E c \in Callers :
        \/ CallLoad(c)
        \/ Lock(c)
        \/ Match(c)
        \/ \E ok \in BOOLEAN : ReadFile(c, ok)
        \/ StoreLoaded(c)

SpecTexture == TextureInit /\ [][TextureNext]_vars

\* The tasks between lock() and the drop of the guard.
InLoad == {c \in Callers : tasks[c].pc \in {"match", "read", "store"}}

\* C23: concurrent calls of load on clones of one Texture make the step from
\* Defined or Decoded to Loaded under the mutex: the asset is registered once,
\* every call returns the same handle, no call sees or consumes the pixel
\* buffer after another call took it, and a failed read in the Defined state
\* leaves the state Defined.
C23_LoadOnceUnderMutex ==
    texture # None =>
        /\ Cardinality(InLoad) <= 1
        /\ Len(assets) <= 1
        /\ \A i \in 1..Len(assets) : assets[i].pixels = "pixels"
        /\ \A c \in Callers :
              tasks[c].result.ok =>
                  /\ tasks[c].result.val = HandleOf(Label)
                  /\ Len(assets) = 1
                  /\ texture[1].inner = InnerLoaded(HandleOf(Label))
        /\ \A c \in Callers :
              (tasks[c].pc = "done" /\ ~tasks[c].result.ok) =>
                  /\ texture[1].first = InnerDefined
                  /\ assets = <<>> => texture[1].inner = InnerDefined
        /\ \A c \in Callers :
              tasks[c].pc = "read" => texture[1].inner = InnerDefined

\* A texture made from bytes: all three calls returned the handle, the asset
\* was set once, with the pixels.
C23_Witness ==
    /\ texture # None /\ texture[1].first = InnerDecoded("pixels")
    /\ \A c \in Callers : tasks[c].result = Ok(HandleOf(Label))
    /\ assets = <<[label |-> Label, pixels |-> "pixels"]>>

\* A texture of a path: the first read failed and left the state Defined, a
\* later call loaded the file.
C23_FailedReadWitness ==
    /\ texture # None /\ texture[1].first = InnerDefined
    /\ \E c, d \in Callers : ~tasks[c].result.ok /\ tasks[c].pc = "done"
                             /\ tasks[d].result = Ok(HandleOf(Label))
    /\ Len(assets) = 1

-----------------------------------------------------------------------------
(* SpecNested: a map with the tileset a.tsx, groups, and object layers whose *)
(* objects instance a template with gid 3 of a.tsx at firstgid 2             *)

\* The tile id local to the template's tileset: gid - firstgid.
LocalTile == Some(3 - 2)

NestedTilesetDocs == {TilesetEl(<<<<"firstgid", DecText(5)>>, <<"source", "a.tsx">>>>, <<>>)}

NestedObjectGroupDocs ==
    {[Element("objectgroup", <<>>) EXCEPT !.objects = ods] :
         ods \in SeqsUpTo({ObjectEl(<<<<"x", DecText(5)>>>>, <<>>, None),
                           TemplatedObject(<<>>, 3, 2, "a.tsx")}, MaxObjects + 1)}

NestedNext ==
    \/ \E d \in NestedTilesetDocs : MapTileset(d)
    \/ \E d \in NestedObjectGroupDocs : ObjectGroup(d)
    \/ GroupStart(Element("group", <<>>))
    \/ GroupEnd
    \/ MapEnd

SpecNested == MapInit /\ [][NestedNext]_vars

\* The objects of the object layers of ls, those inside groups included.
RECURSIVE TreeObjects(_)
TreeObjects(ls) ==
    Flatten([k \in 1..Len(ls) |->
        IF ls[k].kind = "Group" THEN TreeObjects(ls[k].layers) ELSE ls[k].objects])

\* The objects of the object layers that are children of the map element.
TopObjects(ls) ==
    Flatten([k \in 1..Len(ls) |-> IF ls[k].kind = "Group" THEN <<>> ELSE ls[k].objects])

\* The objects of the object layers inside groups.
GroupedObjects(ls) ==
    Flatten([k \in 1..Len(ls) |->
        IF ls[k].kind = "Group" THEN TreeObjects(ls[k].layers) ELSE <<>>])

\* C24: template tileset resolution reaches every object layer of the
\* returned Map, those nested in group layers included: no object of the layer
\* tree still holds the template-local tile id together with the marker.
C24_NoLocalTileAnywhere ==
    map_res = "ok" =>
        \A i \in 1..Len(TreeObjects(layers)) :
            Marked(TreeObjects(layers)[i]) => TreeObjects(layers)[i].tile # LocalTile

\* C24 as the code has it: the objects of the map's own object layers are
\* rebased; an object layer inside a group is not processed, its objects keep
\* the template-local id with the marker.
C24_OnlyTopLevelRebased ==
    map_res = "ok" =>
        /\ \A i \in 1..Len(TopObjects(layers)) :
              Marked(TopObjects(layers)[i]) =>
                  /\ TopObjects(layers)[i].tile # LocalTile
                  /\ \E n \in 1..Len(tilesets) :
                        TopObjects(layers)[i].tile = Some(LocalTile[1] + 5 * n)
        /\ \A i \in 1..Len(GroupedObjects(layers)) :
              Marked(GroupedObjects(layers)[i]) =>
                  GroupedObjects(layers)[i].tile = LocalTile

\* <tileset firstgid="5" source="a.tsx"/>, then a group with an object layer
\* whose object instances the template: the Map has the object with tile 1.
C24_Witness ==
    /\ map_res = "ok" /\ Len(tilesets) = 1 /\ Len(layers) = 1
    /\ layers[1].kind = "Group" /\ Len(layers[1].layers) = 1
    /\ Len(layers[1].layers[1].objects) = 1
    /\ Marked(layers[1].layers[1].objects[1])
    /\ layers[1].layers[1].objects[1].tile = Some(1)

-----------------------------------------------------------------------------
(* SpecPoll: the loops that search a document for its map, tileset or        *)
(* template element, one reader.next() per step                              *)

\* The calls to reader.next() followed after the end of the document.
MaxPolls == 3

\* The element each loop breaks on.
Wanted(fn) ==
    CASE fn = "Map::load_from_xml_reader" -> "map"
      [] fn = "Tileset::parse" -> "tileset"
      [] fn = "Object::parse" -> "template"

PollFns == {"Map::load_from_xml_reader", "Tileset::parse", "Object::parse"}

PollRoots == {"map", "tileset", "template", "foo"}

PollChildren ==
    {<<>>, <<TextNode>>, <<Node("foo", <<>>, <<TextNode>>)>>}
    \cup {<<Node(n, <<>>, <<>>)>> : n \in PollRoots}

\* The events of a well-formed document with the root element ("whole"), of
\* one that breaks off inside the root element ("cut") and of one that breaks
\* off before it ("empty"): the reader reports an error there.
DocumentEvents(root, kind) ==
    <<Ev("StartDocument", "", <<>>)>>
    \o CASE kind = "whole" -> ForestEvents(<<root>>) \o <<Ev("EndDocument", "", <<>>)>>
          [] kind = "cut" -> SubSeq(ForestEvents(<<root>>), 1,
                                    Len(ForestEvents(<<root>>)) - 1)
                             \o <<Ev("Error", "", <<>>)>>
          [] kind = "empty" -> <<Ev("Error", "", <<>>)>>

PollInit ==
    /\ GeoIdle /\ DataIdle /\ MapIdle /\ ObjIdle /\ IterIdle /\ TexIdle
    /\ \E fn \in PollFns, n \in PollRoots, c \in PollChildren,
          kind \in {"whole", "cut", "empty"} :
           args = [fn |-> fn, root |-> n, kind |-> kind,
                   events |-> DocumentEvents(Node(n, <<>>, c), kind),
                   at |-> 1, polls |-> 0]
    /\ returned = Fail("pending")

Polling(kinds) ==
    /\ returned = Fail("pending")
    /\ args.events[args.at].ev \in kinds

\* The callee read the element up to the index r, or failed.
Found(r) ==
    IF r.ok THEN /\ args' = [args EXCEPT !.at = r.val]
                 /\ returned' = Ok([fn |-> Wanted(args.fn), from |-> args.at])
    ELSE args' = args /\ returned' = Fail("err")

\* The element was skipped up to the index r, or the reader failed.
Skipped(r) ==
    IF r.ok THEN args' = [args EXCEPT !.at = r.val] /\ returned' = returned
    ELSE args' = args /\ returned' = Fail("err")

\* if name.local_name == "map" { return Map::parse(..) } and the like: the
\* callee reads the element to its end tag.
PollFound ==
    /\ Polling({"StartElement"})
    /\ args.events[args.at].name = Wanted(args.fn)
    /\ Found(parse_empty(args.events, args.at + 1))
    /\ UNCHANGED notCall

\* else { parse_empty(&mut reader)?; }
PollElement ==
    /\ Polling({"StartElement"})
    /\ args.events[args.at].name # Wanted(args.fn)
    /\ Skipped(parse_empty(args.events, args.at + 1))
    /\ UNCHANGED notCall

\* An event that is no StartElement: the loop goes round.
PollOther ==
    /\ Polling({"StartDocument", "Characters", "EndElement"})
    /\ args' = [args EXCEPT !.at = @ + 1]
    /\ UNCHANGED <<returned, notCall>>

\* reader.next()? is an Err: the function returns it.
PollError ==
    /\ Polling({"Error"})
    /\ returned' = Fail("err")
    /\ UNCHANGED <<args, notCall>>

\* EndDocument as if the loop returned an error on it.
PollEndDocumentFails ==
    /\ Polling({"EndDocument"})
    /\ returned' = Fail("err")
    /\ UNCHANGED <<args, notCall>>

\* EndDocument is no StartElement either: the loop goes round, and the reader,
\* at its end, yields EndDocument again. Nothing changes but the number of
\* polls, which is counted up to MaxPolls.
PollEndDocument ==
    /\ Polling({"EndDocument"})
    /\ args' = [args EXCEPT !.polls = IF @ < MaxPolls THEN @ + 1 ELSE @]
    /\ UNCHANGED <<returned, notCall>>

PollNext == PollFound \/ PollElement \/ PollOther \/ PollError \/ PollEndDocument

SpecPoll == PollInit /\ [][PollNext]_vars

\* The loop is sequential code: it always takes its next step.
SpecPollFair == SpecPoll /\ WF_vars(PollNext)

\* The document holds what ends the loop: the element as its root, or the
\* place where the reader fails.
Ending == args.kind # "whole" \/ args.root = Wanted(args.fn)

\* C26: loading terminates, with a result or an error, on every finite event
\* stream, also when the document has no map, tileset or template element.
C26_LoadTerminates == <>(returned # Fail("pending"))

\* C26 as the code has it: the loop returns when the root element is the one
\* it looks for or the reader fails; on a complete document with another root
\* it reaches EndDocument and polls the reader from then on without returning.
C26_ReturnsIffElementFound ==
    /\ Ending ~> (returned # Fail("pending"))
    /\ [](~Ending => returned = Fail("pending"))
    /\ [](args.polls > 0 =>
              /\ ~Ending /\ args.at = Len(args.events)
              /\ args.events[args.at].ev = "EndDocument")
    /\ ~Ending ~> (args.polls > 0)

\* <tileset><map/></tileset> given to load_from_xml_reader: EndDocument was
\* polled twice and the load has not returned.
C26_Witness ==
    /\ args.fn = "Map::load_from_xml_reader" /\ args.root = "tileset"
    /\ args.kind = "whole" /\ Len(args.events) = 6 /\ args.events[3].name = "map"
    /\ args.polls = 2 /\ returned = Fail("pending")

-----------------------------------------------------------------------------
(* SpecAtlas: the columns and rows loops of parse_tsx, one iteration per     *)
(* step, on integers of LoopBits bits (the code's are i32)                   *)

LoopBits == 5

MaxAtlasSide == 2

MaxAtlasTile == 2

IntHalf == 2 ^ (LoopBits - 1)

\* Two's complement wrap-around of a sum or difference.
WrapInt(n) == ((n + IntHalf) % (2 * IntHalf)) - IntHalf

Overflows(n) == n < -IntHalf \/ n > IntHalf - 1

AtlasInit ==
    /\ GeoIdle /\ DataIdle /\ ObjIdle /\ IterIdle /\ TexIdle
    /\ tilesets = <<>> /\ layers = <<>> /\ stack = <<>> /\ docs = <<>>
    /\ map_res = "idle" /\ lookup = NoLookup
    /\ overflow_checks \in BOOLEAN
    /\ \E w \in 0..MaxAtlasSide, h \in 0..MaxAtlasSide, tw \in 0..MaxAtlasTile,
          th \in 0..MaxAtlasTile, sp \in -1..1, m \in 0..1, c \in {None, Some(1)} :
           args = [fn |-> "parse_tsx", pc |-> "columns", columns |-> c,
                   width |-> w, height |-> h, tile_width |-> tw, tile_height |-> th,
                   spacing |-> sp, margin |-> m,
                   space |-> w - m * 2, cols |-> 0, rows |-> 0]
    /\ returned = Fail("pending")

InLoop(pc) == args.fn = "parse_tsx" /\ args.pc = pc /\ returned = Fail("pending")

\* One iteration left space at s1, then at s2, and the count of the loop at
\* n: with overflow checks a value out of range is a panic, without them it
\* wraps around.
Iterate(count, s1, s2, n) ==
    IF overflow_checks /\ (Overflows(s1) \/ Overflows(s2) \/ Overflows(n))
    THEN args' = args /\ returned' = Fail("panic")
    ELSE /\ args' = [args EXCEPT !.space = WrapInt(s2), ![count] = WrapInt(n)]
         /\ returned' = returned

\* columns.unwrap_or_else(..) with a columns attribute; then
\* let mut space = height - margin * 2
ColumnsGiven ==
    /\ InLoop("columns") /\ args.columns # None
    /\ args' = [args EXCEPT !.pc = "rows", !.cols = args.columns[1],
                            !.space = args.height - args.margin * 2]
    /\ UNCHANGED <<returned, mapVars, geoVars, dataVars, objVars, iterVars, texVars>>

\* The iteration with the spacing taken off once.
ColumnStepOnce ==
    /\ InLoop("columns") /\ args.columns = None
    /\ args.space >= args.tile_width
    /\ Iterate("cols", args.space - (args.tile_width + args.spacing),
               args.space - (args.tile_width + args.spacing), args.cols + 1)
    /\ UNCHANGED <<mapVars, geoVars, dataVars, objVars, iterVars, texVars>>

\* while space >= tile_width { space -= tile_width + spacing;
\*                             space -= spacing; cols += 1; }
ColumnStep ==
    /\ InLoop("columns") /\ args.columns = None
    /\ args.space >= args.tile_width
    /\ Iterate("cols", args.space - (args.tile_width + args.spacing),
               (args.space - (args.tile_width + args.spacing)) - args.spacing,
               args.cols + 1)
    /\ UNCHANGED <<mapVars, geoVars, dataVars, objVars, iterVars, texVars>>

\* The columns loop ends; let mut space = height - margin * 2
ColumnsDone ==
    /\ InLoop("columns") /\ args.columns = None
    /\ args.space < args.tile_width
    /\ args' = [args EXCEPT !.pc = "rows", !.space = args.height - args.margin * 2]
    /\ UNCHANGED <<returned, mapVars, geoVars, dataVars, objVars, iterVars, texVars>>

\* while space >= tile_height { space -= tile_height + spacing; rows += 1; }
RowStep ==
    /\ InLoop("rows")
    /\ args.space >= args.tile_height
    /\ Iterate("rows", args.space - (args.tile_height + args.spacing),
               args.space - (args.tile_height + args.spacing), args.rows + 1)
    /\ UNCHANGED <<mapVars, geoVars, dataVars, objVars, iterVars, texVars>>

\* The rows loop ends with the atlas of cols by rows.
RowsDone ==
    /\ InLoop("rows")
    /\ args.space < args.tile_height
    /\ returned' = Ok([columns |-> args.cols, rows |-> args.rows])
    /\ UNCHANGED <<args, mapVars, geoVars, dataVars, objVars, iterVars, texVars>>

AtlasNext == ColumnsGiven \/ ColumnStep \/ ColumnsDone \/ RowStep \/ RowsDone

SpecAtlas == AtlasInit /\ [][AtlasNext]_vars

\* The loops are sequential code: the next iteration is always taken.
SpecAtlasFair == SpecAtlas /\ WF_vars(AtlasNext)

\* An iteration of the columns loop leaves space as it is, and the loop is
\* entered.
ColumnsStuck ==
    /\ args.columns = None
    /\ args.tile_width + 2 * args.spacing = 0
    /\ args.width - args.margin * 2 >= args.tile_width

\* The same for the rows loop.
RowsStuck ==
    /\ args.tile_height + args.spacing = 0
    /\ args.height - args.margin * 2 >= args.tile_height

\* C27: the computation of the atlas columns and rows terminates for every
\* combination of tileset attributes, tilewidth or tileheight 0 with spacing 0
\* and negative spacing included.
C27_AtlasTerminates == <>(returned # Fail("pending"))

\* C27 as the code has it: a loop whose iteration leaves space unchanged
\* (tile size 0 with spacing 0, or a negative spacing that makes up for the
\* tile size) runs until its count overflows: a panic with overflow checks,
\* and without them the count wraps around and the loop never ends. Every
\* other loop ends.
C27_StuckLoopNeverEnds ==
    /\ [](((ColumnsStuck \/ RowsStuck) /\ ~overflow_checks) =>
              returned = Fail("pending"))
    /\ (overflow_checks \/ ~(ColumnsStuck \/ RowsStuck)) ~> (returned # Fail("pending"))
    /\ [](returned = Fail("panic") =>
              /\ overflow_checks
              /\ \/ args.tile_width + 2 * args.spacing <= 0
                 \/ args.tile_height + args.spacing <= 0)

\* No tilewidth, no spacing, no overflow checks: the column count has wrapped
\* around to a negative number and the loop still runs.
C27_Witness ==
    /\ args.fn = "parse_tsx" /\ args.pc = "columns" /\ ~overflow_checks
    /\ args.tile_width = 0 /\ args.spacing = 0 /\ args.columns = None
    /\ args.cols < 0 /\ returned = Fail("pending")

-----------------------------------------------------------------------------
(* The non-staggered isometric round trip, on SpecGeometry *)

IsPlainIso == tile_type.kind = "Isometric" /\ ~tile_type.stagger

EvenPositiveTile == EvenPositive(tile_type.width) /\ EvenPositive(tile_type.height)

\* C28: for a non-staggered isometric TileType with even positive width and
\* height, pos_to_coord maps the centre of the bounding box of the tile (x, y),
\* 0 <= x, y < layer_height, back to (x, y).
C28_CentreRoundTrip ==
    (/\ IsPlainIso /\ EvenPositiveTile /\ AtCentre
     /\ coord[1] \in 0..(layer_height - 1) /\ coord[2] \in 0..(layer_height - 1))
        => (back.ok /\ back.val = coord)

\* C28 as the code has it: the centre maps back to (x, y) when x + y is even;
\* when x + y is odd it maps to (x, y + 1) for x > y and to (x + 1, y) for
\* x < y, the two quotients being rounded separately.
C28_CentreOfEvenDiagonals ==
    (/\ IsPlainIso /\ EvenPositiveTile /\ AtCentre
     /\ coord[1] \in 0..MaxCoord /\ coord[2] \in 0..MaxCoord)
        => /\ back.ok
           /\ back.val = CASE (coord[1] + coord[2]) % 2 = 0 -> coord
                           [] coord[1] > coord[2] -> <<coord[1], coord[2] + 1>>
                           [] OTHER -> <<coord[1] + 1, coord[2]>>

\* Tiles 2 by 2, layer_height 2: the centre of tile (1, 0) maps to (1, 1).
C28_Witness ==
    /\ IsPlainIso /\ tile_type.width = 2 /\ tile_type.height = 2
    /\ layer_height = 2 /\ coord = <<1, 0>> /\ AtCentre
    /\ back = Ok(<<1, 1>>)

\* Tiles 4 by 2, layer_height 2: the centre of tile (1, 1) maps to itself.
C28_EvenWitness ==
    /\ IsPlainIso /\ tile_type.width = 4 /\ tile_type.height = 2
    /\ layer_height = 2 /\ coord = <<1, 1>> /\ AtCentre
    /\ back = Ok(<<1, 1>>)

-----------------------------------------------------------------------------
(* SpecMesh: the mesh of the tiles of a tile layer that share one texture,   *)
(* one tile per step; the vectors are kept by their lengths                  *)

MaxQuads == 16385

\* `as u16`: the low 16 bits.
AsU16Wide(n) == n

AsU16(n) == n % Two16

\* i + k in u16: a panic with overflow checks, wrap-around without.
U16Add(a, b, checks) ==
    IF a + b < Two16 THEN Ok(a + b)
    ELSE IF checks THEN Fail("panic") ELSE Ok((a + b) % Two16)

\* &[i, i + 1, i + 2, i + 2, i + 1, i + 3]
quad(i, checks) ==
    AndThen(U16Add(i, 1, checks), LAMBDA i1 :
        AndThen(U16Add(i, 2, checks), LAMBDA i2 :
            MapOk(U16Add(i, 3, checks), LAMBDA i3 : <<i, i1, i2, i2, i1, i3>>)))

MeshInit ==
    /\ GeoIdle /\ DataIdle /\ ObjIdle /\ IterIdle /\ TexIdle
    /\ tilesets = <<>> /\ layers = <<>> /\ stack = <<>> /\ docs = <<>>
    /\ map_res = "idle" /\ lookup = NoLookup
    /\ overflow_checks \in BOOLEAN
    /\ args = [fn |-> "spawn_layer_entities", vertices |-> 0, indices |-> 0]
    /\ returned = Fail("pending")

\* The body of `for (x, y, w, h, top_left, bottom_right) in tiles`:
\* let i = vertices.len() as u16; six indices and four vertices are pushed.
\* `returned` holds the indices pushed for the tile.
PushQuad ==
    /\ args.fn = "spawn_layer_entities"
    /\ returned.ok \/ returned = Fail("pending")
    /\ args.vertices < 4 * MaxQuads
    /\ returned' = quad(AsU16(args.vertices), overflow_checks)
    /\ args' = IF quad(AsU16(args.vertices), overflow_checks).ok
               THEN [args EXCEPT !.vertices = @ + 4, !.indices = @ + 6]
               ELSE args
    /\ UNCHANGED <<mapVars, geoVars, dataVars, objVars, iterVars, texVars>>

MeshNext == PushQuad

SpecMesh == MeshInit /\ [][MeshNext]_vars

\* The number of the tile pushed last, counted from 0.
LastQuad == args.vertices \div 4 - 1

QuadOf(k) == <<4 * k, 4 * k + 1, 4 * k + 2, 4 * k + 2, 4 * k + 1, 4 * k + 3>>

Pushed == args.fn = "spawn_layer_entities" /\ returned # Fail("pending")

\* C29: the k-th tile drawn with a texture uses the vertex indices 4k .. 4k+3
\* of the mesh, for any number of tiles sharing the texture: the 16-bit
\* indices never wrap around.
C29_QuadOfOwnVertices ==
    Pushed => (returned.ok /\ returned.val = QuadOf(LastQuad))

\* C29 as the code has it: the indices are those of the tile up to the
\* 16384th tile; from tile 16384 on, vertices.len() as u16 drops the high bits
\* and the quad is the one of tile k - 16384 (mod 16384). No addition
\* overflows, with or without overflow checks.
C29_QuadWrapsAfter16384 ==
    Pushed =>
        /\ returned.ok
        /\ returned.val = QuadOf(LastQuad % (Two16 \div 4))
        /\ LastQuad < Two16 \div 4 => returned.val = QuadOf(LastQuad)
        /\ args.indices = 6 * (LastQuad + 1)

\* The 16385th tile (k = 16384) has the indices 0, 1, 2, 2, 1, 3 of tile 0.
C29_Witness ==
    /\ Pushed /\ LastQuad = 16384
    /\ returned = Ok(<<0, 1, 2, 2, 1, 3>>)

-----------------------------------------------------------------------------
(* SpecDiv2: div2 on small dividends and divisors *)

MaxDividend == 12

MaxDivisor == 5

Div2Init ==
    /\ GeoIdle /\ DataIdle /\ MapIdle /\ ObjIdle /\ IterIdle /\ TexIdle
    /\ args \in {[fn |-> "div2", x |-> x, d |-> d] :
                   x \in (-MaxDividend)..MaxDividend, d \in 1..MaxDivisor}
    /\ returned = Fail("pending")

\* let ref_x = div2(x, width as i32)
Div2 ==
    /\ args.fn = "div2" /\ returned = Fail("pending")
    /\ returned' = Ok(div2(args.x, args.d))
    /\ UNCHANGED <<args, notCall>>

Div2Next == Div2

SpecDiv2 == Div2Init /\ [][Div2Next]_vars

Divided == args.fn = "div2" /\ returned.ok

\* let rel_x = x - ref_x * width as i32
Rel == args.x - returned.val * args.d

\* The largest q with q * d <= x.
Floor(x, d) == CHOOSE q \in (-Abs(x) - 1)..Abs(x) : q * d <= x /\ (q + 1) * d > x

NegativeMultiple == args.x < 0 /\ args.x % args.d = 0

\* C30: div2(x, d) is floor(x / d) for every integer x and every d > 0, so
\* that x - div2(x, d) * d lies in [0, d).
C30_Div2IsFloor ==
    Divided => (returned.val = Floor(args.x, args.d) /\ Rel \in 0..(args.d - 1))

\* C30 as the code has it: div2 is the floor except for the negative exact
\* multiples of d, where it is one less and x - div2(x, d) * d is d.
C30_Div2BelowFloorOnMultiples ==
    Divided =>
        IF NegativeMultiple
        THEN returned.val = Floor(args.x, args.d) - 1 /\ Rel = args.d
        ELSE returned.val = Floor(args.x, args.d) /\ Rel \in 0..(args.d - 1)

\* div2(-4, 2) = -3, and -4 - (-3) * 2 = 2.
C30_Witness ==
    /\ Divided /\ args.x = -4 /\ args.d = 2 /\ returned.val = -3 /\ Rel = 2

\* div2(-3, 2) = -2 = floor(-3 / 2).
C30_FloorWitness ==
    /\ Divided /\ args.x = -3 /\ args.d = 2 /\ returned.val = -2 /\ Rel = 1

=============================================================================
